---- MODULE Spec2Model ----
(***************************************************************************)
(* Model of the domain discovery pipeline of rust_domain_searcher_api:     *)
(* the candidate generator (service.rs generate_candidates), the pipeline  *)
(* of run_service (queue, dispatcher, probe workers, the two admission     *)
(* controls), the Progress counters (progress.rs), the buffered store      *)
(* writer (store.rs), the resume state file (save_resume) and the process  *)
(* lifetime of main (main.rs).                                             *)
(*                                                                         *)
(* Strings are sequences of character codes (ASCII), so that the byte-wise *)
(* comparison, to_lowercase and trim of the code are computed, not assumed.*)
(***************************************************************************)
EXTENDS Integers, Sequences, FiniteSets, TLC

VARIABLES
    cfg,            \* the Config the process runs with (generator, limits, run, storage)
    pc,             \* position of run_service's driver / of the generator run
    resume_from,    \* resume_from of the current generator pass
    started,        \* generate_candidates: the started flag
    gpos,           \* generate_candidates: index in the walk of the next (label, tld)
    emitted,        \* history: the domains handed to the sink in the current pass
    last_domain,    \* the LAST_DOMAIN cell
    shutdown,       \* ShutdownSignal.inner
    sent,           \* run_service: sent, the per-pass counter of the emit closure
    passes,         \* history: generator passes started
    dropped,        \* history: the domains try_send refused in the current pass
    queue,          \* the mpsc channel between generator and dispatcher
    dpc,            \* dispatcher: "recv", "acquire" (waits for a permit), "exit"
    dname,          \* dispatcher: the candidate it received and has not spawned yet
    workers,        \* the probe tasks the dispatcher spawned, in spawn order
    conc,           \* available permits of the concurrency semaphore
    limiter,        \* available permits of the rate semaphore
    refills,        \* history: ticks of the refill task
    sinceRefill,    \* history: probes that entered check_domain since the last refill
    prog,           \* Progress: enqueued, checked, found, total_planned
    sendTasks,      \* DomainStore::add: spawned tasks that have not sent their domain yet
    schan,          \* the mpsc channel of the store writer
    buffer,         \* store writer: the buffered domains with their keys, in arrival order
    files,          \* the appends to the <tld>.txt files, in the order they were made
    last_flush,     \* store writer: last_flush
    writer,         \* store writer: its position, the file it has open, its writes in flight
    now,            \* the clock, in seconds since the process started
    nextRefill,     \* when the refill task's ticker fires next
    nextSaverTick,  \* when the periodic saver's ticker fires next
    mainpc,         \* main: "run", "grace" (the sleep after trigger), "returned", "exited", "killed"
    graceEnd,       \* main: when the sleep after trigger ends
    saves,          \* the save_resume calls in progress, of the periodic saver and the final save
    prev,           \* periodic saver: prev
    inodes,         \* the content of the files of the storage directory, by inode
    tmpPath,        \* the inode the temporary path names, 0 when the path does not exist
    statePath,      \* the inode the state file's path names, 0 when the path does not exist
    probe,          \* a call of check_domain: its target, its position, the requests it made
    caller          \* a caller of the DomainStore API: its adds since reset, its last list_all

genVars == <<cfg, pc, resume_from, started, gpos, emitted, last_domain>>

drvVars == <<shutdown, sent, passes, dropped>>

qVars == <<queue, dpc, dname>>

wVars == <<workers, conc, limiter, refills, sinceRefill>>

storeVars == <<sendTasks, schan>>

writerVars == <<buffer, files, last_flush, writer>>

procVars == <<now, nextRefill, nextSaverTick, mainpc, graceEnd>>

fsVars == <<saves, prev, inodes, tmpPath, statePath>>

\* the store writer, the process around run_service, the resume state's saves, and
\* check_domain taken on its own
envVars == <<writerVars, procVars, fsVars, probe, caller>>

\* everything but the generator's own state
pipeVars == <<drvVars, qVars, wVars, prog, storeVars, envVars>>

vars == <<genVars, pipeVars>>

-----------------------------------------------------------------------------
(* Bounds of the model *)

\* the longest label length a generator config of GenConfigs asks for
MaxLabelLen == 2

\* limits.concurrency of the pipeline configs ranges over 1..MaxConc
MaxConc == 2

\* limits.rate_per_second of the pipeline configs ranges over 1..MaxRate
MaxRate == 2

\* the refill task ticks at most MaxRefills times in a run
MaxRefills == 2

\* the driver starts at most MaxPasses generator passes in a run
MaxPasses == 2

\* the clock of a timed run stops at MaxTime seconds
MaxTime == 3

\* http_check.retry is at most MaxRetry
MaxRetry == 1

-----------------------------------------------------------------------------
(* Durations of the program, in seconds *)

\* store writer: flush_interval
FlushInterval == 2

\* main: the sleep between shutdown.trigger() and the return
GraceSecs == 1

\* run_service: the period of the refill ticker
RefillPeriod == 1

\* run_service: the period of the periodic saver's ticker
SaverPeriod == 1

\* store writer: the soft limits on buffered TLDs and buffered lines
SoftTlds == 500

SoftLines == 5000

-----------------------------------------------------------------------------
(* Strings *)

\* str::to_lowercase on ASCII: 'A'..'Z' (65..90) become 'a'..'z'
ToLower(s) ==
    [i \in DOMAIN s |-> IF s[i] \in 65..90 THEN s[i] + 32 ELSE s[i]]

\* the characters str::trim removes (ASCII white space)
IsSpace(c) ==
    c = 32 \/ c \in 9..13

RECURSIVE TrimStart(_)
TrimStart(s) ==
    IF Len(s) > 0 /\ IsSpace(s[1]) THEN TrimStart(Tail(s)) ELSE s

RECURSIVE TrimEnd(_)
TrimEnd(s) ==
    IF Len(s) > 0 /\ IsSpace(s[Len(s)]) THEN TrimEnd(SubSeq(s, 1, Len(s) - 1)) ELSE s

\* str::trim
Trim(s) ==
    TrimEnd(TrimStart(s))

\* a < b for Rust strings: byte-wise lexicographic order
RECURSIVE StrLess(_, _)
StrLess(a, b) ==
    IF Len(b) = 0 THEN FALSE
    ELSE IF Len(a) = 0 THEN TRUE
    ELSE IF a[1] # b[1] THEN a[1] < b[1]
    ELSE StrLess(Tail(a), Tail(b))

\* a <= b for Rust strings
StrLeq(a, b) ==
    a = b \/ StrLess(a, b)

\* the elements of a sequence
Range(s) ==
    {s[i] : i \in DOMAIN s}

-----------------------------------------------------------------------------
(* generate_candidates: the walk *)

\* the alphabet used when gen.alphabet is empty: "abcdefghijklmnopqrstuvwxyz0123456789-"
DefaultAlphabet ==
    [i \in 1..37 |-> IF i <= 26 THEN 96 + i ELSE IF i <= 36 THEN 21 + i ELSE 45]

\* alpha_chars
AlphaChars(gen) ==
    IF gen.alphabet = <<>> THEN DefaultAlphabet ELSE gen.alphabet

\* "build label" without the check of the last position
RECURSIVE BuildLabelNoTrailing(_, _, _, _, _)
BuildLabelNoTrailing(gen, idx, i, prev_hyphen, label) ==
    IF i > Len(idx) THEN [valid |-> TRUE, label |-> label]
    ELSE LET r == AlphaChars(gen)[idx[i] + 1]
         IN  IF r = 45
             THEN IF \/ ~gen.allow_hyphen
                     \/ (gen.forbid_leading_hyphen /\ i = 1)
                     \/ (gen.forbid_double_hyphen /\ prev_hyphen)
                  THEN [valid |-> FALSE, label |-> label]
                  ELSE BuildLabelNoTrailing(gen, idx, i + 1, TRUE, Append(label, r))
             ELSE BuildLabelNoTrailing(gen, idx, i + 1, FALSE, Append(label, r))

\* "build label": the label of odometer idx (digits 0-based, positions 1..ln) and
\* whether it is valid; i is the next position, label what is pushed so far
RECURSIVE BuildLabel(_, _, _, _, _)
BuildLabel(gen, idx, i, prev_hyphen, label) ==
    IF i > Len(idx) THEN [valid |-> TRUE, label |-> label]
    ELSE LET r == AlphaChars(gen)[idx[i] + 1]
         IN  IF r = 45
             THEN IF \/ ~gen.allow_hyphen
                     \/ (gen.forbid_leading_hyphen /\ i = 1)
                     \/ (gen.forbid_trailing_hyphen /\ i = Len(idx))
                     \/ (gen.forbid_double_hyphen /\ prev_hyphen)
                  THEN [valid |-> FALSE, label |-> label]
                  ELSE BuildLabel(gen, idx, i + 1, TRUE, Append(label, r))
             ELSE BuildLabel(gen, idx, i + 1, FALSE, Append(label, r))

\* an odometer whose leftmost position is the fastest
RECURSIVE IncOdometerLeft(_, _, _)
IncOdometerLeft(idx, i, n) ==
    IF i < 1 THEN [idx |-> idx, carry |-> 1]
    ELSE LET p == Len(idx) + 1 - i
         IN  IF idx[p] + 1 >= n
             THEN IncOdometerLeft([idx EXCEPT ![p] = 0], i - 1, n)
             ELSE [idx |-> [idx EXCEPT ![p] = idx[p] + 1], carry |-> 0]

\* "increment odometer": position i and the ones left of it, carrying; n = |alphabet|
RECURSIVE IncOdometer(_, _, _)
IncOdometer(idx, i, n) ==
    IF i < 1 THEN [idx |-> idx, carry |-> 1]
    ELSE IF idx[i] + 1 >= n
         THEN IncOdometer([idx EXCEPT ![i] = 0], i - 1, n)
         ELSE [idx |-> [idx EXCEPT ![i] = idx[i] + 1], carry |-> 0]

\* a tld loop that only skips the empty entries: an entry without the leading '.'
\* yields a domain too
RECURSIVE LabelDomainsAnyTld(_, _, _)
LabelDomainsAnyTld(gen, label, k) ==
    IF k > Len(gen.tlds) THEN <<>>
    ELSE LET t == ToLower(Trim(gen.tlds[k]))
         IN  IF t = <<>>
             THEN LabelDomainsAnyTld(gen, label, k + 1)
             ELSE <<label \o t>> \o LabelDomainsAnyTld(gen, label, k + 1)

\* the tld loop of one valid label: label + t for every accepted entry of gen.tlds,
\* in config order (t = tld.trim().to_lowercase(), skipped when empty or not ".")
RECURSIVE LabelDomains(_, _, _)
LabelDomains(gen, label, k) ==
    IF k > Len(gen.tlds) THEN <<>>
    ELSE LET t == ToLower(Trim(gen.tlds[k]))
         IN  IF t = <<>> \/ t[1] # 46
             THEN LabelDomains(gen, label, k + 1)
             ELSE <<label \o t>> \o LabelDomains(gen, label, k + 1)

\* the inner loop for one length: every odometer value from idx on
RECURSIVE WalkFrom(_, _)
WalkFrom(gen, idx) ==
    LET b    == BuildLabel(gen, idx, 1, FALSE, <<>>)
        here == IF b.valid THEN LabelDomains(gen, b.label, 1) ELSE <<>>
        inc  == IncOdometer(idx, Len(idx), Len(AlphaChars(gen)))
    IN  IF inc.carry > 0 THEN here ELSE here \o WalkFrom(gen, inc.idx)

\* the outer loop: lengths ln..max_length, each from the all-zero odometer
RECURSIVE WalkLengths(_, _)
WalkLengths(gen, ln) ==
    IF ln > gen.max_length THEN <<>>
    ELSE WalkFrom(gen, [i \in 1..ln |-> 0]) \o WalkLengths(gen, ln + 1)

\* every domain the two loops form, in the order they form it (before the
\* resume filter)
Walk(gen) ==
    WalkLengths(gen, gen.min_length)

\* a resume filter without the started flag: every domain dl <= resume is skipped,
\* wherever it is in the walk
ResumeStepFilter(st, resume, domain) ==
    LET dl == ToLower(domain)
    IN  IF resume # <<>> /\ StrLeq(dl, resume)
        THEN [started |-> st \/ dl = resume, emit |-> FALSE]
        ELSE [started |-> TRUE, emit |-> TRUE]

\* the resume filter applied to one domain: the new started flag and whether the
\* domain goes on to the sink
ResumeStep(st, resume, domain) ==
    LET dl == ToLower(domain)
    IN  IF ~st
        THEN IF StrLeq(dl, resume)
             THEN [started |-> (dl = resume), emit |-> FALSE]
             ELSE [started |-> TRUE, emit |-> TRUE]
        ELSE [started |-> TRUE, emit |-> TRUE]

\* what generate_candidates hands to a sink that always returns true
RECURSIVE EmitAll(_, _, _)
EmitAll(w, st, resume) ==
    IF w = <<>> THEN <<>>
    ELSE LET r == ResumeStep(st, resume, Head(w))
         IN  (IF r.emit THEN <<Head(w)>> ELSE <<>>) \o EmitAll(Tail(w), r.started, resume)

generate_candidates(gen, from) ==
    EmitAll(Walk(gen), ToLower(from) = <<>>, ToLower(from))

-----------------------------------------------------------------------------
(* Generator configs and resume points the generator is run with *)

\* gen.alphabet values: "ab", "ba", "Ab" (no hyphen) and "a-"; the hyphen alphabet
\* also with labels of length 3
PlainAlphabets ==
    {<<97, 98>>, <<98, 97>>, <<65, 98>>}

HyphenAlphabets ==
    {<<97, 45>>}

\* gen.tlds values: [".io"], [".b", ".a"], ["io", "", " .IO "], [".a", ".A"]
TldLists ==
    {<<(<<46, 105, 111>>)>>,
     <<(<<46, 98>>), (<<46, 97>>)>>,
     <<(<<105, 111>>), (<<>>), (<<32, 46, 73, 79, 32>>)>>,
     <<(<<46, 97>>), (<<46, 65>>)>>}

\* validate_config: 1 <= min_length <= max_length
LengthRanges ==
    {r \in (1..MaxLabelLen) \X (1..MaxLabelLen) : r[1] <= r[2]}

GenConfig(alphabet, r, tlds, allow, lead, trail, dbl) ==
    [alphabet |-> alphabet, min_length |-> r[1], max_length |-> r[2], tlds |-> tlds,
     allow_hyphen |-> allow, forbid_leading_hyphen |-> lead,
     forbid_trailing_hyphen |-> trail, forbid_double_hyphen |-> dbl]

GenConfigs ==
    {GenConfig(a, r, t, FALSE, FALSE, FALSE, FALSE) :
        a \in PlainAlphabets, r \in LengthRanges, t \in TldLists}
    \cup
    {GenConfig(a, r, <<(<<46, 120>>)>>, p[1], p[2], p[3], p[4]) :
        a \in HyphenAlphabets, r \in LengthRanges,
        p \in BOOLEAN \X BOOLEAN \X BOOLEAN \X BOOLEAN}
    \cup
    {GenConfig(<<>>, <<1, 1>>, <<(<<46, 120>>)>>, h, TRUE, TRUE, TRUE) : h \in BOOLEAN}
    \cup
    {GenConfig(<<97, 45>>, <<3, 3>>, <<(<<46, 120>>)>>, p[1], p[2], p[3], p[4]) :
        p \in BOOLEAN \X BOOLEAN \X BOOLEAN \X BOOLEAN}

\* 'a'..'z' become 'A'..'Z'
ToUpper(s) ==
    [i \in DOMAIN s |-> IF s[i] \in 97..122 THEN s[i] - 32 ELSE s[i]]

\* resume_from values: empty, every domain of the walk as it is and in upper
\* case, and "a", "b.", "zz" which no walk contains
ResumeInputs(gen) ==
    {<<>>, <<97>>, <<98, 46>>, <<122, 122>>}
    \cup Range(Walk(gen))
    \cup {ToUpper(d) : d \in Range(Walk(gen))}

-----------------------------------------------------------------------------
(* Progress (progress.rs) *)

\* Progress::new
ProgressNew(total_planned) ==
    [enqueued |-> 0, checked |-> 0, found |-> 0,
     total_planned |-> IF total_planned > 0 THEN total_planned ELSE 0]

\* inc_enqueued with store(1) in place of fetch_add(1)
IncEnqueuedStore(p) ==
    [p EXCEPT !.enqueued = 1]

\* Progress::inc_enqueued
inc_enqueued(p) ==
    [p EXCEPT !.enqueued = @ + 1]

inc_checked(p) ==
    [p EXCEPT !.checked = @ + 1]

inc_found(p) ==
    [p EXCEPT !.found = @ + 1]

\* Progress::set_initial
set_initial(p, enqueued, checked, found, total_planned) ==
    [enqueued |-> enqueued, checked |-> checked, found |-> found,
     total_planned |-> IF total_planned > 0 THEN total_planned ELSE 0]

\* the store writer right after DomainStore::new, and main before it waits for
\* the server, the service or ctrl-c
\* the callers of save_resume: the periodic saver task and run_service's final save
Savers == {"periodic", "final"}

\* more inodes than the two paths and the savers' two open files can hold at a time
InodeIds == 1 .. 4

\* a file nothing has been written to, which is also what File::create truncates to
EmptyFile ==
    [bytes |-> "none", len |-> 0, last_domain |-> <<>>, enqueued |-> 0, checked |-> 0,
     found |-> 0, total_planned |-> 0]

\* no save_resume call in progress, and none was made (res: what the caller's last
\* call returned, "none", "ok" or "err"; last: what that call was given)
IdleSave ==
    [pc |-> "idle", last |-> <<>>, enqueued |-> 0, checked |-> 0, found |-> 0, fd |-> 0,
     res |-> "none"]

\* no call of check_domain is followed on its own
IdleProbe ==
    [pc |-> "idle", target |-> [dns |-> "addresses", buildable |-> TRUE], attempt |-> 0,
     si |-> 1, log |-> <<>>, res |-> "none"]

\* no call of the DomainStore API is followed: no reset (reset: a reset has returned
\* Ok), no add (adds: the domains add was called with since the last reset that
\* returned Ok, in call order; calls: the add calls made in all), no list_all and no
\* list (lpc: the last call, "reset_ok", "reset_err", "listed" for list_all, "list",
\* "none" for add; listed: what the last list_all or list returned; complete: every
\* domain added before that call had been flushed and every file could be read)
IdleCaller ==
    [reset |-> FALSE, adds |-> <<>>, calls |-> 0, lpc |-> "none", listed |-> <<>>,
     complete |-> FALSE, dropped |-> FALSE]

\* the writer task as DomainStore::new spawns it: at its select!, no file open (cur),
\* no write handed to a file and not yet in it (pending).  arm is the arm of the
\* select! that called flush_buffer: "recv", "timeout" or "closed"
IdleWriter ==
    [pc |-> "select", arm |-> "none", cur |-> <<>>, pending |-> <<>>]

\* a storage directory without a state file and without a temporary file
EmptyDisk ==
    [inodes |-> [i \in InodeIds |-> EmptyFile], tmpPath |-> 0, statePath |-> 0]

\* the storage directory is d
DiskIs(d) ==
    /\ inodes = d.inodes
    /\ tmpPath = d.tmpPath
    /\ statePath = d.statePath

EnvIdle ==
    /\ probe = IdleProbe
    /\ caller = IdleCaller
    /\ saves = [s \in Savers |-> IdleSave]
    /\ prev = <<>>
    /\ buffer = <<>>
    /\ files = <<>>
    /\ last_flush = 0
    /\ writer = IdleWriter
    /\ now = 0
    /\ nextRefill = 0
    /\ nextSaverTick = 0
    /\ mainpc = "run"
    /\ graceEnd = 0

\* main has not returned and the process is not killed: the runtime polls its
\* tasks
Alive ==
    mainpc \notin {"returned", "exited", "killed"}

\* the process has not ended.  When main has returned its DomainStore handle is
\* dropped and the runtime shuts down: it drops the tasks where they are
\* suspended, and the writer task, woken by the channel, may run until then
WriterRuns ==
    mainpc \notin {"exited", "killed"}

\* the state of the pipeline before run_service has done anything (and all through
\* a run of the generator on its own)
PipeIdle ==
    /\ shutdown = 0
    /\ sent = 0
    /\ passes = 0
    /\ dropped = <<>>
    /\ queue = <<>>
    /\ dpc = "recv"
    /\ dname = <<>>
    /\ workers = <<>>
    /\ conc = 0
    /\ limiter = 0
    /\ refills = 0
    /\ sinceRefill = 0
    /\ prog = ProgressNew(0)
    /\ sendTasks = <<>>
    /\ schan = <<>>
    /\ EnvIdle
    /\ DiskIs(EmptyDisk)

-----------------------------------------------------------------------------
(* generate_candidates run on its own, with a sink that takes every domain *)

InitGen ==
    /\ cfg \in {[gen |-> g] : g \in GenConfigs}
    /\ resume_from \in ResumeInputs(cfg.gen)
    /\ pc = "gen"
    /\ started = (ToLower(resume_from) = <<>>)
    /\ gpos = 1
    /\ emitted = <<>>
    /\ last_domain = <<>>
    /\ PipeIdle

\* one (label, tld) of the walk that the resume filter skips ("continue")
GenSkip ==
    /\ Alive
    /\ pc = "gen"
    /\ gpos <= Len(Walk(cfg.gen))
    /\ LET r == ResumeStep(started, ToLower(resume_from), Walk(cfg.gen)[gpos])
       IN  /\ ~r.emit
           /\ started' = r.started
    /\ gpos' = gpos + 1
    /\ UNCHANGED <<cfg, pc, resume_from, emitted, last_domain, pipeVars>>

\* one (label, tld) that passes the filter: last_domain is written, the sink
\* takes the domain and returns true
GenEmitCollect ==
    /\ pc = "gen"
    /\ gpos <= Len(Walk(cfg.gen))
    /\ LET d == Walk(cfg.gen)[gpos]
           r == ResumeStep(started, ToLower(resume_from), d)
       IN  /\ r.emit
           /\ started' = r.started
           /\ last_domain' = d
           /\ emitted' = Append(emitted, d)
    /\ gpos' = gpos + 1
    /\ UNCHANGED <<cfg, pc, resume_from, pipeVars>>

\* both loops are exhausted: Ok(())
GenReturn ==
    /\ pc = "gen"
    /\ gpos > Len(Walk(cfg.gen))
    /\ pc' = "done"
    /\ UNCHANGED <<cfg, resume_from, started, gpos, emitted, last_domain, pipeVars>>

NextGen ==
    \/ GenSkip
    \/ GenEmitCollect
    \/ GenReturn

SpecGen == InitGen /\ [][NextGen]_vars

-----------------------------------------------------------------------------
(* generate_candidates with a sink that can return false *)

\* one (label, tld) that passes the filter: last_domain is written, the sink is
\* called with the domain and returns false: return Ok(())
GenEmitRefused ==
    /\ pc = "gen"
    /\ gpos <= Len(Walk(cfg.gen))
    /\ LET d == Walk(cfg.gen)[gpos]
           r == ResumeStep(started, ToLower(resume_from), d)
       IN  /\ r.emit
           /\ started' = r.started
           /\ last_domain' = d
           /\ emitted' = Append(emitted, d)
    /\ pc' = "refused"
    /\ UNCHANGED <<cfg, resume_from, gpos, pipeVars>>

NextSink ==
    \/ NextGen
    \/ GenEmitRefused

\* the generator's future has not completed; a step of it is then enabled
GenRunning ==
    pc = "gen"

\* the generator's future is polled until it completes: weak fairness of its
\* steps, with the enabling condition of <<NextSink>>_vars written out
FairSink ==
    []<>(~GenRunning) \/ []<><<NextSink>>_vars

SpecSink == InitGen /\ [][NextSink]_vars /\ FairSink

-----------------------------------------------------------------------------
(* run_service: configs *)

\* the generator config of the pipeline runs: alphabet "abc", min = max = 1,
\* tlds [".io"]; its walk is a.io, b.io, c.io
PipeGen ==
    GenConfig(<<97, 98, 99>>, <<1, 1>>, <<(<<46, 105, 111>>)>>, FALSE, FALSE, FALSE, FALSE)

\* the hosts that answer a probe with an accepted status: a.io and c.io
Reachable ==
    {<<97, 46, 105, 111>>, <<99, 46, 105, 111>>}

\* limits.max_candidates values of the pipeline runs: uncapped, and a cap of 2
CapValues ==
    {0, 2}

PipeConfigs ==
    [gen : {PipeGen}, concurrency : 1..MaxConc, rate_per_second : 1..MaxRate,
     max_candidates : CapValues, loop_ : BOOLEAN, resume : {FALSE}]

\* capacity of the candidate channel
QueueCap(c) ==
    IF c.concurrency * 2 > 1 THEN c.concurrency * 2 ELSE 1

\* rps
Rps(c) ==
    IF c.rate_per_second > 1 THEN c.rate_per_second ELSE 1

\* nw
Nw(c) ==
    IF c.concurrency > 1 THEN c.concurrency ELSE 1

\* accepted entries of gen.tlds: the domains one label yields
TldsPerLabel(gen) ==
    Len(LabelDomains(gen, <<>>, 1))

\* the inner loop for one length from odometer idx on, n domains formed before:
\* the walk positions before which the generator yields to the runtime. It
\* yields after every label, valid or not, whose increment does not carry out
\* of the odometer
RECURSIVE YieldsFrom(_, _, _)
YieldsFrom(gen, idx, n) ==
    LET b    == BuildLabel(gen, idx, 1, FALSE, <<>>)
        here == IF b.valid THEN TldsPerLabel(gen) ELSE 0
        inc  == IncOdometer(idx, Len(idx), Len(AlphaChars(gen)))
    IN  IF inc.carry > 0 THEN {}
        ELSE {n + here + 1} \cup YieldsFrom(gen, inc.idx, n + here)

\* the outer loop: the yields of the lengths ln..max_length
RECURSIVE YieldsLengths(_, _, _)
YieldsLengths(gen, ln, n) ==
    IF ln > gen.max_length THEN {}
    ELSE LET zero == [i \in 1..ln |-> 0]
         IN  YieldsFrom(gen, zero, n)
                \cup YieldsLengths(gen, ln + 1, n + Len(WalkFrom(gen, zero)))

\* the generator is suspended at its cooperative yield before walk position g
\* (Len(Walk(gen)) + 1 when only invalid labels are left)
AtYield(gen, g) ==
    g \in YieldsLengths(gen, gen.min_length, 0)

-----------------------------------------------------------------------------
(* run_service: the state after the channel, the two semaphores and the tasks
   are created, with resume disabled *)

\* run_service at position at of its driver, with one of the storage directories
\* disks
InitAt(configs, at, disks) ==
    /\ cfg \in configs
    /\ pc = at
    /\ resume_from = <<>>
    /\ started = TRUE
    /\ gpos = 1
    /\ emitted = <<>>
    /\ last_domain = <<>>
    /\ shutdown = 0
    /\ sent = 0
    /\ passes = 0
    /\ dropped = <<>>
    /\ queue = <<>>
    /\ dpc = "recv"
    /\ dname = <<>>
    /\ workers = <<>>
    /\ conc = Nw(cfg)
    /\ limiter = 0
    /\ refills = 0
    /\ sinceRefill = 0
    /\ prog = ProgressNew(cfg.max_candidates)
    /\ sendTasks = <<>>
    /\ schan = <<>>
    /\ EnvIdle
    /\ \E d \in disks : DiskIs(d)

\* run_service at its loop, after a setup that found no state file
InitWith(configs) ==
    InitAt(configs, "select", {EmptyDisk})

Init ==
    InitWith(PipeConfigs)

-----------------------------------------------------------------------------
(* run_service: the driver loop and the emit closure *)

\* ShutdownSignal::trigger, called by main
Trigger ==
    /\ Alive
    /\ shutdown = 0
    /\ shutdown' = 1
    /\ UNCHANGED <<genVars, sent, passes, dropped, qVars, wVars, prog, storeVars, envVars>>

\* select!: shutdown.wait() completes, at the top of the loop or while the
\* generator is suspended at its yield: break
ShutdownBreak ==
    /\ Alive
    /\ shutdown # 0
    /\ \/ pc = "select"
       \/ pc = "gen" /\ AtYield(cfg.gen, gpos)
    /\ pc' = "final"
    /\ UNCHANGED <<cfg, resume_from, started, gpos, emitted, last_domain, pipeVars>>

\* select!: the generator branch is polled first: a pass starts, resume_from is
\* read from the cell
PassStart ==
    /\ Alive
    /\ pc = "select"
    /\ passes < MaxPasses
    /\ passes' = passes + 1
    /\ sent' = 0
    /\ resume_from' = last_domain
    /\ started' = (ToLower(last_domain) = <<>>)
    /\ gpos' = 1
    /\ emitted' = <<>>
    /\ dropped' = <<>>
    /\ pc' = "gen"
    /\ UNCHANGED <<cfg, last_domain, shutdown, qVars, wVars, prog, storeVars, envVars>>

\* a driver that pauses and reruns whatever run.loop is
AfterPassAlwaysLoop(c) ==
    "sleep"

\* where the driver goes when the generator future completes
AfterPass(c) ==
    IF c.loop_ THEN "sleep" ELSE "final"

\* a domain passes the resume filter: generate_candidates and the emit closure
\* write it to the cell, and the closure calls try_send
GenEmit ==
    /\ Alive
    /\ pc = "gen"
    /\ gpos <= Len(Walk(cfg.gen))
    /\ LET d == Walk(cfg.gen)[gpos]
           r == ResumeStep(started, ToLower(resume_from), d)
       IN  /\ r.emit
           /\ started' = r.started
           /\ last_domain' = d
           /\ emitted' = Append(emitted, d)
           /\ IF Len(queue) < QueueCap(cfg)
              THEN /\ queue' = Append(queue, d)
                   /\ pc' = "count"
                   /\ UNCHANGED dropped
              ELSE /\ dropped' = Append(dropped, d)
                   /\ UNCHANGED <<queue, pc>>
    /\ gpos' = gpos + 1
    /\ UNCHANGED <<cfg, resume_from, shutdown, sent, passes, dpc, dname, wVars, prog,
                   storeVars, envVars>>

\* the cap check a pass without the comparison's equality would make
CapReachedLate(c, n) ==
    c.max_candidates > 0 /\ n > c.max_candidates

\* the emit closure's cap check, on the pass's sent counter
CapReached(c, n) ==
    c.max_candidates > 0 /\ n >= c.max_candidates

\* GenCount without prog.inc_enqueued(): only the pass's counter grows
GenCountSentOnly ==
    /\ Alive
    /\ pc = "count"
    /\ sent' = sent + 1
    /\ pc' = IF CapReached(cfg, sent + 1)
             THEN AfterPass(cfg)
             ELSE "gen"
    /\ UNCHANGED <<cfg, resume_from, started, gpos, emitted, last_domain, shutdown,
                   passes, dropped, qVars, wVars, prog, storeVars, envVars>>

\* try_send returned Ok: sent += 1, inc_enqueued, and the cap check; at the cap the
\* closure returns false and the generator returns
GenCount ==
    /\ Alive
    /\ pc = "count"
    /\ sent' = sent + 1
    /\ prog' = inc_enqueued(prog)
    /\ pc' = IF CapReached(cfg, sent + 1)
             THEN AfterPass(cfg)
             ELSE "gen"
    /\ UNCHANGED <<cfg, resume_from, started, gpos, emitted, last_domain, shutdown,
                   passes, dropped, qVars, wVars, storeVars, envVars>>

\* both loops of the generator are exhausted: the pass is over
PassEnd ==
    /\ Alive
    /\ pc = "gen"
    /\ gpos > Len(Walk(cfg.gen))
    /\ pc' = AfterPass(cfg)
    /\ UNCHANGED <<cfg, resume_from, started, gpos, emitted, last_domain, pipeVars>>

\* loop mode: the 250 ms pause is over, back to the top of the loop
SleepDone ==
    /\ Alive
    /\ pc = "sleep"
    /\ pc' = "select"
    /\ UNCHANGED <<cfg, resume_from, started, gpos, emitted, last_domain, pipeVars>>

\* after the loop, resume disabled: "service stopped"; tx is dropped
Stop ==
    /\ Alive
    /\ pc = "final"
    /\ ~cfg.resume
    /\ pc' = "stopped"
    /\ UNCHANGED <<cfg, resume_from, started, gpos, emitted, last_domain, pipeVars>>

-----------------------------------------------------------------------------
(* run_service: the refill task, the dispatcher and the probe workers *)

\* the refill task: add_permits(rps)
RefillEffect ==
    /\ refills' = refills + 1
    /\ limiter' = limiter + Rps(cfg)
    /\ sinceRefill' = 0
    /\ UNCHANGED <<genVars, drvVars, qVars, workers, conc, prog, storeVars>>

\* the refill task when the clock is not modelled: ticker.tick() returns (the first
\* time at once), add_permits(rps)
RefillTick ==
    /\ Alive
    /\ refills < MaxRefills
    /\ RefillEffect
    /\ UNCHANGED envVars

\* rx.recv() returns Some(name)
DispatchRecv ==
    /\ Alive
    /\ dpc = "recv"
    /\ queue # <<>>
    /\ dname' = Head(queue)
    /\ queue' = Tail(queue)
    /\ dpc' = "acquire"
    /\ UNCHANGED <<genVars, drvVars, wVars, prog, storeVars, envVars>>

\* a worker as the dispatcher spawns it
NewWorker(name) ==
    [name |-> name, pc |-> "rps", res |-> "none"]

\* DispatchSpawn without the permit: the worker is spawned as soon as a candidate
\* is received
DispatchSpawnNoPermit ==
    /\ Alive
    /\ dpc = "acquire"
    /\ workers' = Append(workers, NewWorker(dname))
    /\ dname' = <<>>
    /\ dpc' = "recv"
    /\ UNCHANGED <<genVars, drvVars, queue, conc, limiter, refills, sinceRefill, prog,
                   storeVars, envVars>>

\* acquire_owned() returns a permit, and the worker is spawned with it
DispatchSpawn ==
    /\ Alive
    /\ dpc = "acquire"
    /\ conc > 0
    /\ conc' = conc - 1
    /\ workers' = Append(workers, NewWorker(dname))
    /\ dname' = <<>>
    /\ dpc' = "recv"
    /\ UNCHANGED <<genVars, drvVars, queue, limiter, refills, sinceRefill, prog,
                   storeVars, envVars>>

\* rx.recv() returns None: the channel is empty and every sender is dropped, which
\* is when run_service has returned or its future has been dropped
DispatchExit ==
    /\ Alive
    /\ dpc = "recv"
    /\ queue = <<>>
    /\ pc \in {"stopped", "cancelled"}
    /\ dpc' = "exit"
    /\ UNCHANGED <<genVars, drvVars, queue, dname, wVars, prog, storeVars, envVars>>

\* limiter.acquire() returns a permit: the worker enters check_domain
WorkerToken(w) ==
    /\ Alive
    /\ workers[w].pc = "rps"
    /\ limiter > 0
    /\ limiter' = limiter - 1
    /\ sinceRefill' = sinceRefill + 1
    /\ workers' = [workers EXCEPT ![w].pc = "probe"]
    /\ UNCHANGED <<genVars, drvVars, qVars, conc, refills, prog, storeVars, envVars>>

\* what check_domain can return for a domain: Ok(true) only from a host that
\* answers, Ok(false) and Err(_) for any domain
ProbeResults(name) ==
    IF name \in Reachable THEN {"true", "false", "err"} ELSE {"false", "err"}

\* AfterProbe with the error propagated out of the task (check_domain(..).await?):
\* the worker ends without inc_checked
AfterProbeErrReturns(r) ==
    IF r = "true" THEN "add" ELSE IF r = "err" THEN "permit" ELSE "check"

\* where a worker goes with the result of check_domain: store.add on Ok(true),
\* else straight to inc_checked
AfterProbe(r) ==
    IF r = "true" THEN "add" ELSE "check"

\* check_domain returns
WorkerProbe(w) ==
    /\ Alive
    /\ workers[w].pc = "probe"
    /\ \E r \in ProbeResults(workers[w].name) :
         workers' = [workers EXCEPT ![w].pc = AfterProbe(r), ![w].res = r]
    /\ UNCHANGED <<genVars, drvVars, qVars, conc, limiter, refills, sinceRefill, prog,
                   storeVars, envVars>>

\* store.add(&name): a task is spawned that will send the domain to the writer
WorkerAdd(w) ==
    /\ Alive
    /\ workers[w].pc = "add"
    /\ sendTasks' = Append(sendTasks, workers[w].name)
    /\ workers' = [workers EXCEPT ![w].pc = "found"]
    /\ UNCHANGED <<genVars, drvVars, qVars, conc, limiter, refills, sinceRefill, prog,
                   schan, envVars>>

\* prog.inc_found()
WorkerFound(w) ==
    /\ Alive
    /\ workers[w].pc = "found"
    /\ prog' = inc_found(prog)
    /\ workers' = [workers EXCEPT ![w].pc = "check"]
    /\ UNCHANGED <<genVars, drvVars, qVars, conc, limiter, refills, sinceRefill,
                   storeVars, envVars>>

\* prog.inc_checked()
WorkerChecked(w) ==
    /\ Alive
    /\ workers[w].pc = "check"
    /\ prog' = inc_checked(prog)
    /\ workers' = [workers EXCEPT ![w].pc = "permit"]
    /\ UNCHANGED <<genVars, drvVars, qVars, conc, limiter, refills, sinceRefill,
                   storeVars, envVars>>

\* WorkerFinish without drop(permit): the task ends and keeps its concurrency
\* permit
WorkerFinishKeepsPermit(w) ==
    /\ Alive
    /\ workers[w].pc = "permit"
    /\ limiter' = limiter + 1
    /\ workers' = [workers EXCEPT ![w].pc = "done"]
    /\ UNCHANGED <<genVars, drvVars, qVars, conc, refills, sinceRefill, prog, storeVars,
                   envVars>>

\* the end of the task: drop(permit) gives the concurrency permit back to conc, and
\* _rpsp, the SemaphorePermit of the rate limiter, goes out of scope, which gives
\* its permit back to limiter
WorkerFinish(w) ==
    /\ Alive
    /\ workers[w].pc = "permit"
    /\ conc' = conc + 1
    /\ limiter' = limiter + 1
    /\ workers' = [workers EXCEPT ![w].pc = "done"]
    /\ UNCHANGED <<genVars, drvVars, qVars, refills, sinceRefill, prog, storeVars, envVars>>

\* a task spawned by DomainStore::add runs: tx.send(d)
StoreSend ==
    /\ Alive
    /\ \E i \in DOMAIN sendTasks :
         /\ schan' = Append(schan, sendTasks[i])
         /\ sendTasks' = SubSeq(sendTasks, 1, i - 1) \o SubSeq(sendTasks, i + 1, Len(sendTasks))
    /\ UNCHANGED <<genVars, drvVars, qVars, wVars, prog, envVars>>

Next ==
    \/ Trigger
    \/ ShutdownBreak
    \/ PassStart
    \/ GenSkip
    \/ GenEmit
    \/ GenCount
    \/ PassEnd
    \/ SleepDone
    \/ Stop
    \/ RefillTick
    \/ DispatchRecv
    \/ DispatchSpawn
    \/ DispatchExit
    \/ \E w \in DOMAIN workers :
         \/ WorkerToken(w)
         \/ WorkerProbe(w)
         \/ WorkerAdd(w)
         \/ WorkerFound(w)
         \/ WorkerChecked(w)
         \/ WorkerFinish(w)
    \/ StoreSend

Spec == Init /\ [][Next]_vars

-----------------------------------------------------------------------------
(* run_service with its tasks scheduled fairly *)

\* the runs whose tasks are followed to their end: loop mode with the cap of 2,
\* every concurrency and every rate
LiveConfigs ==
    {c \in PipeConfigs : c.loop_ /\ c.max_candidates = 2}

\* the workers a run can spawn: one for each candidate of the walk at most
WorkerIds ==
    1 .. Len(Walk(PipeGen))

\* a step of the dispatcher task
DispatcherStep ==
    \/ DispatchRecv
    \/ DispatchSpawn

\* a step of the task of worker w
WorkerStep(w) ==
    /\ w \in DOMAIN workers
    /\ \/ WorkerToken(w)
       \/ WorkerProbe(w)
       \/ WorkerAdd(w)
       \/ WorkerFound(w)
       \/ WorkerChecked(w)
       \/ WorkerFinish(w)

\* the runtime runs every task that can make a step: the refill task, the
\* dispatcher and each worker (check_domain returns: every request has a timeout)
FairTasks ==
    /\ WF_vars(RefillTick)
    /\ WF_vars(DispatcherStep)
    /\ \A w \in WorkerIds : WF_vars(WorkerStep(w))

SpecLive == InitWith(LiveConfigs) /\ [][Next]_vars /\ FairTasks

-----------------------------------------------------------------------------
(* run_service in loop mode, over two generator configs *)

\* a generator config whose alphabet is not in ascending order, as the default
\* alphabet is (letters, then digits, then the hyphen): alphabet "ba",
\* min = max = 1, tlds [".io"]; its walk is b.io, a.io
UnsortedGen ==
    GenConfig(<<98, 97>>, <<1, 1>>, <<(<<46, 105, 111>>)>>, FALSE, FALSE, FALSE, FALSE)

\* loop mode, capped and uncapped, rate 1, every concurrency
LoopConfigs ==
    [gen : {PipeGen, UnsortedGen}, concurrency : 1..MaxConc, rate_per_second : {1},
     max_candidates : CapValues, loop_ : {TRUE}, resume : {FALSE}]

SpecLoop == InitWith(LoopConfigs) /\ [][Next]_vars

-----------------------------------------------------------------------------
(* The store writer task (DomainStore::new) *)

\* the position of the last '.' of s, 0 when there is none (rfind, 1-based)
RECURSIVE LastDot(_, _)
LastDot(s, i) ==
    IF i = 0 THEN 0 ELSE IF s[i] = 46 THEN i ELSE LastDot(s, i - 1)

\* DomainStore::extract_tld: None for no '.', a leading '.' and a trailing '.'
extract_tld(domain) ==
    LET idx == LastDot(domain, Len(domain))
    IN  IF idx = 0 \/ idx = 1 \/ idx = Len(domain)
        THEN [some |-> FALSE, tld |-> <<>>]
        ELSE [some |-> TRUE, tld |-> SubSeq(domain, idx + 1, Len(domain))]

\* the buffer after the writer received domain: the domain is pushed under the key
\* extract_tld gives; the buffer is kept in arrival order, which is the order of
\* every key's Vec
Buffered(buf, domain) ==
    LET t == extract_tld(domain)
    IN  IF t.some THEN Append(buf, [tld |-> t.tld, domain |-> domain]) ELSE buf

\* the soft limit that triggers a flush: more than SoftTlds keys or more than
\* SoftLines lines
OverSoftLimit(buf) ==
    \/ Cardinality({buf[i].tld : i \in DOMAIN buf}) > SoftTlds
    \/ Len(buf) > SoftLines

\* the line terminator flush_buffer writes
Newline ==
    10

\* the carriage return BufRead::lines strips before a line terminator
CarriageReturn ==
    13

\* the Vec buffered under key tld: its domains in arrival order
RECURSIVE Group(_, _)
Group(buf, tld) ==
    IF buf = <<>> THEN <<>>
    ELSE (IF Head(buf).tld = tld THEN <<Head(buf).domain>> ELSE <<>>)
         \o Group(Tail(buf), tld)

\* the buffer without the entry of key tld, which drain() has yielded
RECURSIVE Drained(_, _)
Drained(buf, tld) ==
    IF buf = <<>> THEN <<>>
    ELSE (IF Head(buf).tld = tld THEN <<>> ELSE <<Head(buf)>>) \o Drained(Tail(buf), tld)

\* flush_buffer, chunk: every domain of the Vec followed by a newline
RECURSIVE Chunk(_)
Chunk(domains) ==
    IF domains = <<>> THEN <<>>
    ELSE Append(Head(domains), Newline) \o Chunk(Tail(domains))

\* the names of the *.txt files of the storage directory, without the extension
TxtFiles(fs) ==
    {fs[i].tld : i \in DOMAIN fs}

\* the bytes of <tld>.txt
RECURSIVE FileBytes(_, _)
FileBytes(fs, tld) ==
    IF fs = <<>> THEN <<>>
    ELSE (IF Head(fs).tld = tld THEN Head(fs).data ELSE <<>>) \o FileBytes(Tail(fs), tld)

\* a line as BufRead::lines returns it: without the carriage return at its end
StripCr(line) ==
    IF line # <<>> /\ line[Len(line)] = CarriageReturn
    THEN SubSeq(line, 1, Len(line) - 1)
    ELSE line

\* BufRead::lines: the bytes split at every newline, each line without its
\* terminator; bytes after the last newline are a line of their own (cur: the line
\* being read)
RECURSIVE Lines(_, _)
Lines(bytes, cur) ==
    IF bytes = <<>> THEN (IF cur = <<>> THEN <<>> ELSE <<cur>>)
    ELSE IF Head(bytes) = Newline THEN <<StripCr(cur)>> \o Lines(Tail(bytes), <<>>)
    ELSE Lines(Tail(bytes), Append(cur, Head(bytes)))

\* the lines BufReader::lines reads from the file <name>.txt
ReadLines(fs, name) ==
    Lines(FileBytes(fs, name), <<>>)

\* DomainStore::list(tld): the tld is trimmed and lower-cased before it names the
\* file; a blank tld and a file that does not exist give the empty list
list(fs, tld) ==
    LET t == ToLower(Trim(tld))
    IN  IF t = <<>> THEN <<>>
        ELSE IF t \notin TxtFiles(fs) THEN <<>>
        ELSE ReadLines(fs, t)

\* the writer after flush_buffer has returned to the arm that called it: the recv
\* and the timeout arm go back to the select!, the closed arm breaks
AfterFlush(w) ==
    IF w.arm = "closed"
    THEN [w EXCEPT !.pc = "ended", !.arm = "none"]
    ELSE [w EXCEPT !.pc = "select", !.arm = "none"]

\* rx.recv() returns Some(domain): the domain is buffered under its TLD, and
\* flush_buffer is called when the buffer is over the soft limit
WriterRecv ==
    /\ WriterRuns
    /\ writer.pc = "select"
    /\ schan # <<>>
    /\ schan' = Tail(schan)
    /\ buffer' = Buffered(buffer, Head(schan))
    /\ writer' = IF OverSoftLimit(buffer')
                 THEN [writer EXCEPT !.pc = "open", !.arm = "recv"]
                 ELSE writer
    /\ UNCHANGED <<genVars, drvVars, qVars, wVars, prog, sendTasks, files, last_flush,
                   procVars, fsVars, probe, caller>>

\* sleep_until(last_flush + flush_interval) is over: flush_buffer is called when
\* the buffer is not empty, else last_flush is set
WriterTimeout ==
    /\ WriterRuns
    /\ writer.pc = "select"
    /\ now >= last_flush + FlushInterval
    /\ IF buffer # <<>>
       THEN /\ writer' = [writer EXCEPT !.pc = "open", !.arm = "timeout"]
            /\ UNCHANGED last_flush
       ELSE /\ last_flush' = now
            /\ UNCHANGED writer
    /\ UNCHANGED <<genVars, drvVars, qVars, wVars, prog, storeVars, buffer, files,
                   procVars, fsVars, probe, caller>>

\* every Sender of the channel is dropped: the caller has dropped its handles and
\* no send task is left, or main has returned and the runtime drops the tasks
SendersDropped ==
    \/ mainpc = "returned"
    \/ caller.dropped /\ sendTasks = <<>>

\* rx.recv() returns None, the channel is empty and closed: flush_buffer is
\* called, then the loop is left
WriterClosed ==
    /\ WriterRuns
    /\ writer.pc = "select"
    /\ schan = <<>>
    /\ SendersDropped
    /\ writer' = IF buffer # <<>>
                 THEN [writer EXCEPT !.pc = "open", !.arm = "closed"]
                 ELSE [writer EXCEPT !.pc = "ended"]
    /\ UNCHANGED <<genVars, drvVars, qVars, wVars, prog, storeVars, buffer, files,
                   last_flush, procVars, fsVars, probe, caller>>

\* flush_buffer: drain() yields the Vec of a key (in any order of the keys), and
\* <tld>.txt is opened for append, created when it does not exist
FlushOpen ==
    /\ WriterRuns
    /\ writer.pc = "open"
    /\ \E i \in DOMAIN buffer :
         LET tld == buffer[i].tld
         IN  /\ buffer' = Drained(buffer, tld)
             /\ files' = IF tld \in TxtFiles(files) THEN files
                         ELSE Append(files, [tld |-> tld, data |-> <<>>])
             /\ writer' = [writer EXCEPT
                             !.pc = "write",
                             !.cur = <<[tld |-> tld, data |-> Chunk(Group(buffer, tld)),
                                        unlinked |-> FALSE]>>]
    /\ UNCHANGED <<genVars, drvVars, qVars, wVars, prog, storeVars, last_flush,
                   procVars, fsVars, probe, caller>>

\* flush_buffer: the open fails (the directory is not writable, it is gone): the
\* error is logged, the Vec is dropped, and the loop goes on to the next key
FlushOpenFails ==
    /\ WriterRuns
    /\ writer.pc = "open"
    /\ \E i \in DOMAIN buffer :
         buffer' = Drained(buffer, buffer[i].tld)
    /\ writer' = IF buffer' = <<>> THEN AfterFlush(writer) ELSE writer
    /\ last_flush' = IF buffer' = <<>> /\ writer.arm # "closed" THEN now ELSE last_flush
    /\ UNCHANGED <<genVars, drvVars, qVars, wVars, prog, storeVars, files, procVars,
                   fsVars, probe, caller>>

\* flush_buffer: write_all(chunk) returns Ok once the File has taken the bytes
\* and handed them to the blocking pool; the File is dropped without a flush, so
\* the bytes are not in the file yet.  After the last key flush_buffer returns
FlushWrite ==
    /\ WriterRuns
    /\ writer.pc = "write"
    /\ LET w == [writer EXCEPT !.cur = <<>>, !.pending = writer.pending \o writer.cur,
                               !.pc = "open"]
       IN  writer' = IF buffer = <<>> THEN AfterFlush(w) ELSE w
    /\ last_flush' = IF buffer = <<>> /\ writer.arm # "closed" THEN now ELSE last_flush
    /\ UNCHANGED <<genVars, drvVars, qVars, wVars, prog, storeVars, buffer, files,
                   procVars, fsVars, probe, caller>>

\* w without its i-th write in flight
WithoutPending(w, i) ==
    [w EXCEPT !.pending = SubSeq(w.pending, 1, i - 1)
                            \o SubSeq(w.pending, i + 1, Len(w.pending))]

\* the blocking pool runs a write: the bytes are appended to the file the File
\* was opened on, which no path names any more when reset has removed it
WriteLands ==
    /\ WriterRuns
    /\ \E i \in DOMAIN writer.pending :
         LET wr == writer.pending[i]
         IN  /\ files' = IF wr.unlinked THEN files
                         ELSE Append(files, [tld |-> wr.tld, data |-> wr.data])
             /\ writer' = WithoutPending(writer, i)
    /\ UNCHANGED <<genVars, drvVars, qVars, wVars, prog, storeVars, buffer, last_flush,
                   procVars, fsVars, probe, caller>>

\* the write fails in the blocking pool (the disk is full): the first k bytes of
\* the chunk are in the file, the rest is not; nobody is told, the File is gone
WriteLost ==
    /\ WriterRuns
    /\ \E i \in DOMAIN writer.pending :
         LET wr == writer.pending[i]
         IN  \E k \in 0 .. (Len(wr.data) - 1) :
               /\ files' = IF wr.unlinked \/ k = 0 THEN files
                           ELSE Append(files, [tld |-> wr.tld,
                                               data |-> SubSeq(wr.data, 1, k)])
               /\ writer' = WithoutPending(writer, i)
    /\ UNCHANGED <<genVars, drvVars, qVars, wVars, prog, storeVars, buffer, last_flush,
                   procVars, fsVars, probe, caller>>

\* the writer is not inside flush_buffer and no write is in flight: a flush and
\* its writes take less than a second
WriterQuiet ==
    /\ writer.pc \in {"select", "ended"}
    /\ writer.pending = <<>>

\* the writer's timer is not due
TimerNotDue ==
    writer.pc = "select" => now < last_flush + FlushInterval

-----------------------------------------------------------------------------
(* The resume state: the periodic saver, the final save, save_resume *)

\* the number of decimal digits of n >= 0
RECURSIVE Digits(_)
Digits(n) ==
    IF n < 10 THEN 1 ELSE 1 + Digits(n \div 10)

\* the file save_resume writes for a call: the serialized ResumeState.  len is
\* its length without the part that is the same in every state file.
ResumeState(call) ==
    [bytes |-> "all",
     len |-> Len(Trim(call.last)) + Digits(call.enqueued) + Digits(call.checked)
               + Digits(call.found) + Digits(prog.total_planned),
     last_domain |-> Trim(call.last),
     enqueued |-> call.enqueued,
     checked |-> call.checked,
     found |-> call.found,
     total_planned |-> prog.total_planned]

\* write_all through a descriptor File::create returned, so from offset 0: what
\* the file held beyond the written bytes stays
Overlay(old, data) ==
    IF data.len >= old.len THEN data ELSE [data EXCEPT !.bytes = "torn", !.len = old.len]

\* inode i is named by a path or open in a save
Referenced(i, tmp, state, sv) ==
    \/ i = tmp
    \/ i = state
    \/ \E s \in Savers : sv[s].fd = i

\* the inodes, those that nothing refers to any more freed
Sweep(ino, tmp, state, sv) ==
    [i \in InodeIds |-> IF Referenced(i, tmp, state, sv) THEN ino[i] ELSE EmptyFile]

\* the inode a new file gets
FreeInode ==
    CHOOSE i \in InodeIds :
        /\ ~Referenced(i, tmpPath, statePath, saves)
        /\ \A j \in InodeIds : j < i => Referenced(j, tmpPath, statePath, saves)

\* the generator of the runs with resume: the one candidate a.io
SaveGen ==
    GenConfig(<<97>>, <<1, 1>>, <<(<<46, 105, 111>>)>>, FALSE, FALSE, FALSE, FALSE)

\* the pipeline configs of the runs with a state file: one worker, one token a
\* second, no cap or a cap of one candidate a pass
SaveConfigs ==
    [gen : {SaveGen}, concurrency : {1}, rate_per_second : {1},
     max_candidates : {0, 1}, loop_ : BOOLEAN, resume : BOOLEAN]

\* a state file that parses: the ResumeState fields as they are in the file
StateFile(last, enqueued, checked, found, total_planned) ==
    [bytes |-> "all",
     len |-> Len(last) + Digits(enqueued) + Digits(checked) + Digits(found)
               + Digits(total_planned),
     last_domain |-> last, enqueued |-> enqueued, checked |-> checked, found |-> found,
     total_planned |-> total_planned]

\* the state files run_service starts with: one that does not parse (empty), one
\* with " a.io " and all counters 0, one with a.io and counters 2, 1, 1 but
\* total_planned 0, one with an empty last_domain and only total_planned = 3
StateFiles ==
    {EmptyFile,
     StateFile(<<32, 97, 46, 105, 111, 32>>, 0, 0, 0, 0),
     StateFile(<<97, 46, 105, 111>>, 2, 1, 1, 0),
     StateFile(<<>>, 0, 0, 0, 3)}

\* the storage directories run_service starts with: no state file, or one of
\* StateFiles
StartDisks ==
    {EmptyDisk} \cup
    {[EmptyDisk EXCEPT !.inodes[1] = f, !.statePath = 1] : f \in StateFiles}

\* run_service is called
InitSave ==
    InitAt(SaveConfigs, "load", StartDisks)

\* the total_planned that is restored, taken from the state file whatever it holds
RestoredTotalFromState(st, p) ==
    st.total_planned

\* the total_planned that is restored: the state's when it is > 0, else the
\* configured one
RestoredTotal(st, p) ==
    IF st.total_planned > 0 THEN st.total_planned ELSE p.total_planned

\* run_service, resume state management: with resume and a state file that reads
\* and parses, the cell is set to the trimmed last_domain, and the counters are
\* restored when one of them is > 0
ResumeLoad ==
    /\ Alive
    /\ pc = "load"
    /\ pc' = "select"
    /\ IF cfg.resume /\ statePath # 0 /\ inodes[statePath].bytes = "all"
       THEN LET st == inodes[statePath]
            IN  /\ last_domain' = Trim(st.last_domain)
                /\ prog' = IF \/ st.enqueued > 0
                              \/ st.checked > 0
                              \/ st.found > 0
                              \/ st.total_planned > 0
                           THEN set_initial(prog, st.enqueued, st.checked, st.found,
                                            RestoredTotal(st, prog))
                           ELSE prog
       ELSE UNCHANGED <<last_domain, prog>>
    /\ UNCHANGED <<cfg, resume_from, started, gpos, emitted, drvVars, qVars, wVars,
                   storeVars, envVars>>

\* periodic saver: ticker.tick() returns, cur is read, and save_resume is called
\* when cur is not empty and differs from prev
SaverTick ==
    /\ Alive
    /\ cfg.resume
    /\ saves["periodic"].pc = "idle"
    /\ last_domain # <<>>
    /\ last_domain # prev
    /\ saves' = [saves EXCEPT !["periodic"] =
                    [IdleSave EXCEPT !.pc = "call", !.last = last_domain]]
    /\ UNCHANGED <<genVars, drvVars, qVars, wVars, prog, storeVars, writerVars, procVars,
                   prev, inodes, tmpPath, statePath, probe, caller>>

\* run_service after its loop, with resume: cur is read and save_resume is called
FinalSave ==
    /\ Alive
    /\ pc = "final"
    /\ cfg.resume
    /\ pc' = "save"
    /\ saves' = [saves EXCEPT !["final"] =
                    [IdleSave EXCEPT !.pc = "call", !.last = last_domain]]
    /\ UNCHANGED <<cfg, resume_from, started, gpos, emitted, last_domain, drvVars, qVars,
                   wVars, prog, storeVars, writerVars, procVars, prev, inodes, tmpPath,
                   statePath, probe, caller>>

\* save_resume returns r to its caller, which ignores it: the saver sets
\* prev = cur, run_service returns
SaveReturn(s, r) ==
    /\ saves' = [saves EXCEPT ![s] = [IdleSave EXCEPT !.last = saves[s].last, !.res = r]]
    /\ IF s = "periodic"
       THEN /\ prev' = saves[s].last
            /\ pc' = pc
       ELSE /\ prev' = prev
            /\ pc' = "stopped"

\* save_resume: returns at once when last is blank, else goes on to
\* prog.snapshot(), which loads enqueued first
SaveEnter(s) ==
    /\ Alive
    /\ saves[s].pc = "call"
    /\ IF Trim(saves[s].last) = <<>>
       THEN SaveReturn(s, "ok")
       ELSE /\ saves' = [saves EXCEPT ![s].pc = "chk", ![s].enqueued = prog.enqueued]
            /\ UNCHANGED <<pc, prev>>
    /\ UNCHANGED <<cfg, resume_from, started, gpos, emitted, last_domain, drvVars, qVars,
                   wVars, prog, storeVars, writerVars, procVars, inodes, tmpPath,
                   statePath, probe, caller>>

\* prog.snapshot(): the load of checked
SaveLoadChecked(s) ==
    /\ Alive
    /\ saves[s].pc = "chk"
    /\ saves' = [saves EXCEPT ![s].pc = "fnd", ![s].checked = prog.checked]
    /\ UNCHANGED <<genVars, drvVars, qVars, wVars, prog, storeVars, writerVars, procVars,
                   prev, inodes, tmpPath, statePath, probe, caller>>

\* prog.snapshot(): the load of found
SaveLoadFound(s) ==
    /\ Alive
    /\ saves[s].pc = "fnd"
    /\ saves' = [saves EXCEPT ![s].pc = "create", ![s].found = prog.found]
    /\ UNCHANGED <<genVars, drvVars, qVars, wVars, prog, storeVars, writerVars, procVars,
                   prev, inodes, tmpPath, statePath, probe, caller>>

\* std::fs::write(&tmp, data), File::create: the temporary path is opened, created
\* if it does not exist and truncated if it does
SaveCreate(s) ==
    /\ Alive
    /\ saves[s].pc = "create"
    /\ LET fd == IF tmpPath # 0 THEN tmpPath ELSE FreeInode
       IN  /\ saves' = [saves EXCEPT ![s].pc = "write", ![s].fd = fd]
           /\ inodes' = [inodes EXCEPT ![fd] = EmptyFile]
           /\ tmpPath' = fd
    /\ UNCHANGED <<genVars, drvVars, qVars, wVars, prog, storeVars, writerVars, procVars,
                   prev, statePath, probe, caller>>

\* std::fs::write(&tmp, data), File::create fails (the directory is not writable,
\* the disk is full): save_resume returns the error
SaveCreateFails(s) ==
    /\ Alive
    /\ saves[s].pc = "create"
    /\ SaveReturn(s, "err")
    /\ UNCHANGED <<cfg, resume_from, started, gpos, emitted, last_domain, drvVars, qVars,
                   wVars, prog, storeVars, writerVars, procVars, inodes, tmpPath,
                   statePath, probe, caller>>

\* std::fs::write(&tmp, data), write_all: the data goes to the file that was
\* opened, whatever path names it by now, and the file is closed
SaveWrite(s) ==
    /\ Alive
    /\ saves[s].pc = "write"
    /\ saves' = [saves EXCEPT ![s].pc = "rename", ![s].fd = 0]
    /\ inodes' = Sweep([inodes EXCEPT ![saves[s].fd] = Overlay(@, ResumeState(saves[s]))],
                       tmpPath, statePath, saves')
    /\ UNCHANGED <<genVars, drvVars, qVars, wVars, prog, storeVars, writerVars, procVars,
                   prev, tmpPath, statePath, probe, caller>>

\* std::fs::write(&tmp, data), write_all fails (the disk is full): nothing or a
\* part of the data is in the file, which is closed and stays under the temporary
\* path; save_resume returns the error without the rename
SaveWriteFails(s) ==
    /\ Alive
    /\ saves[s].pc = "write"
    /\ \E part \in {inodes[saves[s].fd],
                    [Overlay(inodes[saves[s].fd], ResumeState(saves[s]))
                        EXCEPT !.bytes = "torn"]} :
         /\ SaveReturn(s, "err")
         /\ inodes' = Sweep([inodes EXCEPT ![saves[s].fd] = part], tmpPath, statePath,
                            saves')
    /\ UNCHANGED <<cfg, resume_from, started, gpos, emitted, last_domain, drvVars, qVars,
                   wVars, prog, storeVars, writerVars, procVars, tmpPath, statePath,
                   probe, caller>>

\* std::fs::rename(&tmp, path) fails although the temporary path exists (the
\* directory is not writable, the state path is a directory): both paths stay as
\* they are and save_resume returns the error
SaveRenameFails(s) ==
    /\ Alive
    /\ saves[s].pc = "rename"
    /\ tmpPath # 0
    /\ SaveReturn(s, "err")
    /\ UNCHANGED <<cfg, resume_from, started, gpos, emitted, last_domain, drvVars, qVars,
                   wVars, prog, storeVars, writerVars, procVars, inodes, tmpPath,
                   statePath, probe, caller>>

\* std::fs::rename(&tmp, path): the state path names the file the temporary path
\* named; an error when the temporary path does not exist.  Then the return.
SaveRename(s) ==
    /\ Alive
    /\ saves[s].pc = "rename"
    /\ IF tmpPath # 0
       THEN /\ statePath' = tmpPath
            /\ tmpPath' = 0
            /\ inodes' = Sweep(inodes, 0, tmpPath, saves)
            /\ SaveReturn(s, "ok")
       ELSE /\ UNCHANGED <<inodes, tmpPath, statePath>>
            /\ SaveReturn(s, "err")
    /\ UNCHANGED <<cfg, resume_from, started, gpos, emitted, last_domain, drvVars, qVars,
                   wVars, prog, storeVars, writerVars, procVars, probe, caller>>

\* the process is killed
Kill ==
    /\ Alive
    /\ mainpc' = "killed"
    /\ UNCHANGED <<genVars, drvVars, qVars, wVars, prog, storeVars, writerVars, now,
                   nextRefill, nextSaverTick, graceEnd, fsVars, probe, caller>>

\* run_service from its call on, the tasks it spawns, and a kill of the process
NextSave ==
    \/ ResumeLoad
    \/ Trigger
    \/ ShutdownBreak
    \/ PassStart
    \/ GenSkip
    \/ GenEmit
    \/ GenCount
    \/ PassEnd
    \/ SleepDone
    \/ Stop
    \/ RefillTick
    \/ DispatchRecv
    \/ DispatchSpawn
    \/ DispatchExit
    \/ \E w \in DOMAIN workers :
         \/ WorkerToken(w)
         \/ WorkerProbe(w)
         \/ WorkerAdd(w)
         \/ WorkerFound(w)
         \/ WorkerChecked(w)
         \/ WorkerFinish(w)
    \/ StoreSend
    \/ SaverTick
    \/ FinalSave
    \/ \E s \in Savers :
         \/ SaveEnter(s)
         \/ SaveLoadChecked(s)
         \/ SaveLoadFound(s)
         \/ SaveCreate(s)
         \/ SaveCreateFails(s)
         \/ SaveWrite(s)
         \/ SaveWriteFails(s)
         \/ SaveRename(s)
         \/ SaveRenameFails(s)
    \/ Kill

SpecSave == InitSave /\ [][NextSave]_vars

\* run_service is called on a directory of StartDisks without a state file or with
\* one that is the complete snapshot of an earlier run
InitWhole ==
    InitAt(SaveConfigs, "load",
           {d \in StartDisks : d.statePath # 0 => d.inodes[d.statePath].bytes = "all"})

SpecWhole == InitWhole /\ [][NextSave]_vars

\* the state files of an earlier run that had enqueued 2, checked 1 and found 1:
\* one that ended at a.io, one that ended at a.a (its TLD list has changed since)
RestoreFiles ==
    {StateFile(<<97, 46, 105, 111>>, 2, 1, 1, 0), StateFile(<<97, 46, 97>>, 2, 1, 1, 0)}

\* run_service is called with a cap of one candidate a pass on a directory with
\* one of them
InitRestore ==
    InitAt({c \in SaveConfigs : c.max_candidates = 1}, "load",
           {[EmptyDisk EXCEPT !.inodes[1] = f, !.statePath = 1] : f \in RestoreFiles})

\* a run that restores its counters
SpecRestore == InitRestore /\ [][NextSave]_vars

-----------------------------------------------------------------------------
(* main: the process around run_service, with the clock *)

\* the generator of the timed runs with resume: the one candidate b.io, a host
\* that does not answer
ProcSaveGen ==
    GenConfig(<<98>>, <<1, 1>>, <<(<<46, 105, 111>>)>>, FALSE, FALSE, FALSE, FALSE)

\* the pipeline configs of the timed runs: one worker, one token a second; without
\* resume three candidates and a cap of two, with resume the one candidate b.io
ProcConfigs ==
    [gen : {PipeGen}, concurrency : {1}, rate_per_second : {1},
     max_candidates : {2}, loop_ : BOOLEAN, resume : {FALSE}]
    \cup
    [gen : {ProcSaveGen}, concurrency : {1}, rate_per_second : {1},
     max_candidates : {0}, loop_ : BOOLEAN, resume : {TRUE}]

\* main has built the service future and enters its select!; there is no state
\* file
InitProc ==
    InitAt(ProcConfigs, "load", {EmptyDisk})

\* the refill task with the clock: its ticker fires at 0 s and every second after
RefillTimed ==
    /\ Alive
    /\ now >= nextRefill
    /\ RefillEffect
    /\ nextRefill' = nextRefill + RefillPeriod
    /\ UNCHANGED <<writerVars, now, nextSaverTick, mainpc, graceEnd, fsVars, probe,
                   caller>>

\* the periodic saver with the clock: its ticker fires at 0 s and every second
\* after; cur is read, and save_resume is called when cur is not empty and
\* differs from prev
SaverTimed ==
    /\ Alive
    /\ cfg.resume
    /\ saves["periodic"].pc = "idle"
    /\ now >= nextSaverTick
    /\ nextSaverTick' = nextSaverTick + SaverPeriod
    /\ IF last_domain # <<>> /\ last_domain # prev
       THEN saves' = [saves EXCEPT !["periodic"] =
                        [IdleSave EXCEPT !.pc = "call", !.last = last_domain]]
       ELSE UNCHANGED saves
    /\ UNCHANGED <<genVars, drvVars, qVars, wVars, prog, storeVars, writerVars, now,
                   nextRefill, mainpc, graceEnd, prev, inodes, tmpPath, statePath,
                   probe, caller>>

\* run_service is suspended at an await, where main's select! can complete on
\* another branch: before its first poll, at the generator's yield, in the pause
\* between passes
ServiceSuspended ==
    \/ pc = "load"
    \/ pc = "gen" /\ AtYield(cfg.gen, gpos)
    \/ pc = "sleep"

\* main's select! completes on the server or the ctrl-c branch: the service future
\* is dropped where it is suspended, then shutdown.trigger() and the sleep starts
MainSignal ==
    /\ mainpc = "run"
    /\ ServiceSuspended
    /\ pc' = "cancelled"
    /\ shutdown' = 1
    /\ mainpc' = "grace"
    /\ graceEnd' = now + GraceSecs
    /\ UNCHANGED <<cfg, resume_from, started, gpos, emitted, last_domain, sent, passes,
                   dropped, qVars, wVars, prog, storeVars, writerVars, now, nextRefill,
                   nextSaverTick, fsVars, probe, caller>>

\* main's select! completes on the service branch: run_service has returned; then
\* shutdown.trigger() and the sleep starts
MainServiceDone ==
    /\ mainpc = "run"
    /\ pc = "stopped"
    /\ shutdown' = 1
    /\ mainpc' = "grace"
    /\ graceEnd' = now + GraceSecs
    /\ UNCHANGED <<genVars, sent, passes, dropped, qVars, wVars, prog, storeVars,
                   writerVars, now, nextRefill, nextSaverTick, fsVars, probe, caller>>

\* the sleep is over: main returns.  Its DomainStore handle is dropped and the
\* runtime starts to shut down, which drops every task where it is suspended; the
\* writer task can still be running
MainExit ==
    /\ mainpc = "grace"
    /\ now >= graceEnd
    /\ mainpc' = "returned"
    /\ UNCHANGED <<genVars, drvVars, qVars, wVars, prog, storeVars, writerVars, now,
                   nextRefill, nextSaverTick, graceEnd, fsVars, probe, caller>>

\* the runtime is dropped, the writer task with it wherever it is, and the
\* process ends; the writes handed to the blocking pool have been run
ProcessEnd ==
    /\ mainpc = "returned"
    /\ writer.pending = <<>>
    /\ mainpc' = "exited"
    /\ UNCHANGED <<genVars, drvVars, qVars, wVars, prog, storeVars, writerVars, now,
                   nextRefill, nextSaverTick, graceEnd, fsVars, probe, caller>>

\* a second passes; a timer that is due fires before the clock moves on (the
\* saver's ticker once the saver is back from save_resume)
Tick ==
    /\ Alive
    /\ now < MaxTime
    /\ now < nextRefill
    /\ WriterQuiet
    /\ TimerNotDue
    /\ cfg.resume /\ saves["periodic"].pc = "idle" => now < nextSaverTick
    /\ mainpc = "grace" => now < graceEnd
    /\ now' = now + 1
    /\ UNCHANGED <<genVars, drvVars, qVars, wVars, prog, storeVars, writerVars,
                   nextRefill, nextSaverTick, mainpc, graceEnd, fsVars, probe, caller>>

\* the process: main, run_service and the tasks it spawns, the store writer.  main
\* is the only caller of trigger and calls it once the service future has
\* completed or is dropped, so the driver never sees the signal.
NextProc ==
    \/ ResumeLoad
    \/ PassStart
    \/ GenSkip
    \/ GenEmit
    \/ GenCount
    \/ PassEnd
    \/ SleepDone
    \/ Stop
    \/ FinalSave
    \/ SaverTimed
    \/ \E s \in Savers :
         \/ SaveEnter(s)
         \/ SaveLoadChecked(s)
         \/ SaveLoadFound(s)
         \/ SaveCreate(s)
         \/ SaveCreateFails(s)
         \/ SaveWrite(s)
         \/ SaveWriteFails(s)
         \/ SaveRename(s)
         \/ SaveRenameFails(s)
    \/ RefillTimed
    \/ DispatchRecv
    \/ DispatchSpawn
    \/ DispatchExit
    \/ \E w \in DOMAIN workers :
         \/ WorkerToken(w)
         \/ WorkerProbe(w)
         \/ WorkerAdd(w)
         \/ WorkerFound(w)
         \/ WorkerChecked(w)
         \/ WorkerFinish(w)
    \/ StoreSend
    \/ WriterRecv
    \/ WriterTimeout
    \/ WriterClosed
    \/ FlushOpen
    \/ FlushOpenFails
    \/ FlushWrite
    \/ WriteLands
    \/ WriteLost
    \/ MainSignal
    \/ MainServiceDone
    \/ MainExit
    \/ ProcessEnd
    \/ Tick

SpecProc == InitProc /\ [][NextProc]_vars

-----------------------------------------------------------------------------
(* check_domain on its own: one call, with the answers of the network *)

\* http_check values that pass validate_config: accept_status_min > 0 and
\* accept_status_max >= accept_status_min
HTTPCheckConfigs ==
    [retry : 0..MaxRetry, try_https_first : BOOLEAN,
     accept_status_min : {200}, accept_status_max : {200, 399}]

\* the domain that is probed: what its name resolves to, and whether
\* "{scheme}://{domain}/" builds into a request
Targets ==
    [dns : {"addresses", "none", "error"}, buildable : BOOLEAN]

\* the statuses a server answers with
StatusValues ==
    {199, 200, 399, 400}

\* client.execute returned Err
TransportError ==
    [ok |-> FALSE, status |-> 0]

\* what client.execute can return for target t: Err, or a response with a status
\* when the name resolves
Responses(t) ==
    IF t.dns = "addresses"
    THEN {TransportError} \cup {[ok |-> TRUE, status |-> st] : st \in StatusValues}
    ELSE {TransportError}

\* schemes
Schemes(hc) ==
    IF hc.try_https_first THEN <<"https", "http">> ELSE <<"http", "https">>

\* the status check
Accepted(hc, resp) ==
    /\ resp.ok
    /\ resp.status >= hc.accept_status_min
    /\ resp.status <= hc.accept_status_max

\* an attempt loop that runs 0..retry without retry itself
LastAttemptExclusive(hc, attempt) ==
    attempt + 1 >= hc.retry

\* the attempt loop 0..=retry is at its last value
LastAttempt(hc, attempt) ==
    attempt >= hc.retry

InitProbe ==
    /\ cfg \in {[http_check |-> h] : h \in HTTPCheckConfigs}
    /\ probe \in {[IdleProbe EXCEPT !.pc = "build", !.target = t] : t \in Targets}
    /\ caller = IdleCaller
    /\ pc = "probe"
    /\ resume_from = <<>>
    /\ started = TRUE
    /\ gpos = 1
    /\ emitted = <<>>
    /\ last_domain = <<>>
    /\ shutdown = 0
    /\ sent = 0
    /\ passes = 0
    /\ dropped = <<>>
    /\ queue = <<>>
    /\ dpc = "recv"
    /\ dname = <<>>
    /\ workers = <<>>
    /\ conc = 0
    /\ limiter = 0
    /\ refills = 0
    /\ sinceRefill = 0
    /\ prog = ProgressNew(0)
    /\ sendTasks = <<>>
    /\ schan = <<>>
    /\ saves = [s \in Savers |-> IdleSave]
    /\ prev = <<>>
    /\ inodes = [i \in InodeIds |-> EmptyFile]
    /\ tmpPath = 0
    /\ statePath = 0
    /\ buffer = <<>>
    /\ files = <<>>
    /\ last_flush = 0
    /\ writer = IdleWriter
    /\ now = 0
    /\ nextRefill = 0
    /\ nextSaverTick = 0
    /\ mainpc = "run"
    /\ graceEnd = 0

\* client.request(method, &url).build()?: an url that does not build ends the call
\* with Err
ProbeBuild ==
    /\ probe.pc = "build"
    /\ probe' = IF probe.target.buildable
                THEN [probe EXCEPT !.pc = "execute"]
                ELSE [probe EXCEPT !.pc = "done", !.res = "err"]
    /\ UNCHANGED <<genVars, drvVars, qVars, wVars, prog, storeVars, writerVars, procVars,
                   fsVars, caller>>

\* client.execute(req).await and what follows: an accepted status returns true,
\* anything else goes on to the next scheme, the next attempt, or returns false
ProbeExecute ==
    /\ probe.pc = "execute"
    /\ \E resp \in Responses(probe.target) :
         LET hc   == cfg.http_check
             sent_ == Append(probe.log, [attempt |-> probe.attempt,
                                         scheme |-> Schemes(hc)[probe.si],
                                         resp |-> resp])
         IN  probe' =
               IF Accepted(hc, resp)
               THEN [probe EXCEPT !.log = sent_, !.pc = "done", !.res = "true"]
               ELSE IF probe.si < Len(Schemes(hc))
               THEN [probe EXCEPT !.log = sent_, !.pc = "build", !.si = probe.si + 1]
               ELSE IF ~LastAttempt(hc, probe.attempt)
               THEN [probe EXCEPT !.log = sent_, !.pc = "build", !.si = 1,
                                  !.attempt = probe.attempt + 1]
               ELSE [probe EXCEPT !.log = sent_, !.pc = "done", !.res = "false"]
    /\ UNCHANGED <<genVars, drvVars, qVars, wVars, prog, storeVars, writerVars, procVars,
                   fsVars, caller>>

NextProbe ==
    \/ ProbeBuild
    \/ ProbeExecute

SpecProbe == InitProbe /\ [][NextProbe]_vars

-----------------------------------------------------------------------------
(* The DomainStore API called directly: add, reset, list_all, with the writer
   task of DomainStore::new *)

\* add calls of one caller that are followed
MaxAdds ==
    2

\* seconds of a store's life that are followed
MaxStoreTime ==
    2

\* the safety limit of list_all
ListLimit ==
    100000

\* the domains add is called with: a.io, b.io, a.x, a.b.io, and the malformed aio
\* (no '.'), .io and .a.io (leading '.') and a. (trailing '.')
StoreDomains ==
    {<<97, 46, 105, 111>>, <<98, 46, 105, 111>>, <<97, 46, 120>>,
     <<97, 46, 98, 46, 105, 111>>,
     <<97, 105, 111>>, <<46, 105, 111>>, <<46, 97, 46, 105, 111>>, <<97, 46>>}

\* the state_file reset is called with: state.json, the path of the state file, the
\* empty and a blank string
ResetArgs ==
    {<<115, 116, 97, 116, 101, 46, 106, 115, 111, 110>>, <<>>, <<32, 32>>}

\* the tld list is called with: io, IO, " io ", x, a blank string
ListArgs ==
    {<<105, 111>>, <<73, 79>>, <<32, 105, 111, 32>>, <<120>>, <<32>>}

\* the config of a process that only uses its store
StoreConfigs ==
    {c \in SaveConfigs : c.max_candidates = 0 /\ ~c.loop_ /\ c.resume}

\* the storage directory the store is opened on: it holds the state file of an
\* earlier run
StoreDisks ==
    {[EmptyDisk EXCEPT !.inodes[1] = StateFile(<<97, 46, 105, 111>>, 2, 1, 1, 0),
                       !.statePath = 1]}

\* DomainStore::new has returned; run_service is not called
InitStore ==
    InitAt(StoreConfigs, "store", StoreDisks)

\* the orders read_dir can list the files of set S in
RECURSIVE Orders(_)
Orders(S) ==
    IF S = {} THEN {<<>>}
    ELSE UNION {{<<t>> \o o : o \in Orders(S \ {t})} : t \in S}

\* the first n elements of s
Take(s, n) ==
    SubSeq(s, 1, IF Len(s) < n THEN Len(s) ELSE n)

\* the lines of the files named in order, one file after the other
RECURSIVE ReadFiles(_, _)
ReadFiles(fs, order) ==
    IF order = <<>> THEN <<>>
    ELSE ReadLines(fs, Head(order)) \o ReadFiles(fs, Tail(order))

\* DomainStore::list_all when read_dir lists the *.txt files in order: the lines of
\* every file, up to the safety limit
list_all(fs, order) ==
    Take(ReadFiles(fs, order), ListLimit)

\* the writer has flushed every domain the caller added: no send task is
\* pending, the writer's channel and its buffer are empty, flush_buffer has
\* returned and no write is in flight
FlushComplete ==
    /\ sendTasks = <<>>
    /\ schan = <<>>
    /\ buffer = <<>>
    /\ writer.cur = <<>>
    /\ writer.pending = <<>>

\* the files of fs whose name is not in gone
RECURSIVE Without(_, _)
Without(fs, gone) ==
    IF fs = <<>> THEN <<>>
    ELSE (IF Head(fs).tld \in gone THEN <<>> ELSE <<Head(fs)>>) \o Without(Tail(fs), gone)

\* the writes of ws, those on a file of gone on a file that no path names any more
UnlinkedIn(ws, gone) ==
    [i \in DOMAIN ws |-> IF ws[i].tld \in gone THEN [ws[i] EXCEPT !.unlinked = TRUE]
                          ELSE ws[i]]

\* DomainStore::reset(state_file) when read_dir succeeds: remove_file is called on
\* every *.txt of the directory and, unless state_file is blank, on state_file; an
\* error of remove_file is ignored, so the files of gone are removed, the others
\* stay, and reset returns Ok.  The writer's channel and buffer are not touched,
\* and a file the writer has open is written to all the same
StoreReset ==
    /\ Alive
    /\ pc = "store"
    /\ ~caller.dropped
    /\ \E state_file \in ResetArgs, gone \in SUBSET TxtFiles(files), removed \in BOOLEAN :
         LET unlink == Trim(state_file) # <<>> /\ removed
         IN  /\ files' = Without(files, gone)
             /\ writer' = [writer EXCEPT !.cur = UnlinkedIn(@, gone),
                                         !.pending = UnlinkedIn(@, gone)]
             /\ statePath' = IF unlink THEN 0 ELSE statePath
             /\ inodes' = IF unlink THEN Sweep(inodes, tmpPath, 0, saves) ELSE inodes
    /\ caller' = [caller EXCEPT !.reset = TRUE, !.adds = <<>>, !.lpc = "reset_ok",
                                !.listed = <<>>, !.complete = FALSE]
    /\ UNCHANGED <<genVars, drvVars, qVars, wVars, prog, storeVars, buffer, last_flush,
                   procVars, saves, prev, tmpPath, probe>>

\* DomainStore::reset when read_dir fails (the directory cannot be read, or is
\* gone): reset returns the error, nothing is removed, the state file stays
StoreResetFails ==
    /\ Alive
    /\ pc = "store"
    /\ ~caller.dropped
    /\ caller' = [caller EXCEPT !.lpc = "reset_err", !.listed = <<>>, !.complete = FALSE]
    /\ UNCHANGED <<genVars, drvVars, qVars, wVars, prog, storeVars, writerVars, procVars,
                   fsVars, probe>>

\* DomainStore::add(domain): a task is spawned that will send the domain to the
\* writer; the call returns at once
StoreAdd ==
    /\ Alive
    /\ pc = "store"
    /\ ~caller.dropped
    /\ caller.calls < MaxAdds
    /\ \E d \in StoreDomains :
         /\ sendTasks' = Append(sendTasks, d)
         /\ caller' = [caller EXCEPT !.adds = Append(@, d), !.calls = @ + 1,
                                     !.lpc = "none", !.listed = <<>>,
                                     !.complete = FALSE]
    /\ UNCHANGED <<genVars, drvVars, qVars, wVars, prog, schan, writerVars, procVars,
                   fsVars, probe>>

\* DomainStore::list_all: read_dir lists the *.txt files in some order; a file
\* that cannot be opened is passed over, and nothing is read when read_dir fails
\* (opened: the files read)
ListAll ==
    /\ Alive
    /\ pc = "store"
    /\ ~caller.dropped
    /\ \E opened \in SUBSET TxtFiles(files) : \E order \in Orders(opened) :
         caller' = [caller EXCEPT !.lpc = "listed", !.listed = list_all(files, order),
                                  !.complete = FlushComplete /\ opened = TxtFiles(files)]
    /\ UNCHANGED <<genVars, drvVars, qVars, wVars, prog, storeVars, writerVars, procVars,
                   fsVars, probe>>

\* DomainStore::list(tld); the file cannot be opened: the empty list
StoreList ==
    /\ Alive
    /\ pc = "store"
    /\ ~caller.dropped
    /\ \E tld \in ListArgs, opens \in BOOLEAN :
         caller' = [caller EXCEPT !.lpc = "list",
                                  !.listed = IF opens THEN list(files, tld) ELSE <<>>,
                                  !.complete = FALSE]
    /\ UNCHANGED <<genVars, drvVars, qVars, wVars, prog, storeVars, writerVars, procVars,
                   fsVars, probe>>

\* the caller drops its handles of the store
StoreDrop ==
    /\ Alive
    /\ pc = "store"
    /\ ~caller.dropped
    /\ caller' = [caller EXCEPT !.dropped = TRUE]
    /\ UNCHANGED <<genVars, drvVars, qVars, wVars, prog, storeVars, writerVars, procVars,
                   fsVars, probe>>

\* a second passes; the writer's sleep_until fires before the clock moves on
StoreTick ==
    /\ Alive
    /\ pc = "store"
    /\ now < MaxStoreTime
    /\ WriterQuiet
    /\ TimerNotDue
    /\ now' = now + 1
    /\ UNCHANGED <<genVars, drvVars, qVars, wVars, prog, storeVars, writerVars,
                   nextRefill, nextSaverTick, mainpc, graceEnd, fsVars, probe, caller>>

\* a store, its caller, the send tasks of add and the writer task
NextStore ==
    \/ StoreReset
    \/ StoreResetFails
    \/ StoreAdd
    \/ ListAll
    \/ StoreList
    \/ StoreDrop
    \/ StoreSend
    \/ WriterRecv
    \/ WriterTimeout
    \/ WriterClosed
    \/ FlushOpen
    \/ FlushOpenFails
    \/ FlushWrite
    \/ WriteLands
    \/ WriteLost
    \/ StoreTick

SpecStore == InitStore /\ [][NextStore]_vars

-----------------------------------------------------------------------------
(* C3 *)

\* the domains of s that sort after d (lowercased), in the order of s
RECURSIVE FilterGreater(_, _)
FilterGreater(s, d) ==
    IF s = <<>> THEN <<>>
    ELSE (IF StrLess(d, ToLower(Head(s))) THEN <<Head(s)>> ELSE <<>>)
         \o FilterGreater(Tail(s), d)

\* C3: a finished run with resume_from = d has emitted exactly the fresh-run
\* sequence filtered to the domains dl > d, in the same order, so no domain dl <= d.
C3_ResumeIsFilter ==
    pc = "done" =>
        emitted = FilterGreater(generate_candidates(cfg.gen, <<>>), ToLower(resume_from))

-----------------------------------------------------------------------------
(* C1 *)

\* C1: in every reachable state of a run the Progress counters satisfy
\* enqueued >= checked >= found.
C1_CounterOrder ==
    /\ prog.enqueued >= prog.checked
    /\ prog.checked >= prog.found

-----------------------------------------------------------------------------
(* C2 *)

\* check_domain has returned for worker w
ProbeCompleted(w) ==
    workers[w].pc \in {"add", "found", "check", "permit", "done"}

\* C2: the last_domain cell is empty or holds a candidate whose probe has completed.
C2_LastDomainProbed ==
    \/ last_domain = <<>>
    \/ \E w \in DOMAIN workers : workers[w].name = last_domain /\ ProbeCompleted(w)

-----------------------------------------------------------------------------
(* C4 *)

\* C4: no candidate that passes the resume filter is dropped at a full queue: every
\* candidate emitted in a pass has been placed in the queue.
C4_NoCandidateDropped ==
    dropped = <<>>

-----------------------------------------------------------------------------
(* C5 *)

\* C5: between two consecutive refills at most rate_per_second probes plus one
\* bucket (rate_per_second) of burst enter check_domain.
C5_RateBound ==
    sinceRefill <= 2 * Rps(cfg)

-----------------------------------------------------------------------------
(* C6 *)

\* the workers that hold a concurrency permit: from the spawn to drop(permit)
PermitHolders ==
    {w \in DOMAIN workers :
        workers[w].pc \in {"rps", "probe", "add", "found", "check", "permit"}}

\* C6: at most `concurrency` workers are in flight; every worker holds exactly one
\* permit from its spawn (while it waits for a rate token, during check_domain,
\* through inc_checked) and gives it back exactly once: the free permits and the
\* holders always add up to `concurrency`.
C6_ConcurrencyLimit ==
    /\ Cardinality(PermitHolders) <= cfg.concurrency
    /\ conc >= 0
    /\ conc + Cardinality(PermitHolders) = cfg.concurrency

\* both permits are held, by a worker in check_domain and by one that waits for a
\* rate token, a third candidate waits in the dispatcher for a permit, and an
\* earlier worker has given its permit back
C6_Witness ==
    /\ cfg.concurrency = 2
    /\ conc = 0
    /\ dpc = "acquire"
    /\ \E w \in PermitHolders : workers[w].pc = "probe"
    /\ \E w \in PermitHolders : workers[w].pc = "rps"

-----------------------------------------------------------------------------
(* C8 *)

\* the store's writer has domain d: it is in the writer's channel, in its buffer,
\* in a chunk it writes or in a file
HandedToWriter(d) ==
    \/ d \in Range(schan)
    \/ \E i \in DOMAIN buffer : buffer[i].domain = d
    \/ \E wr \in Range(writer.cur) \cup Range(writer.pending) :
          d \in Range(Lines(wr.data, <<>>))
    \/ \E t \in TxtFiles(files) : d \in Range(ReadLines(files, t))

\* C8: when a worker is about to increment found for its domain, the domain has
\* already been handed to the store's writer.
C8_FoundAfterHanded ==
    \A w \in DOMAIN workers :
        workers[w].pc = "found" => HandedToWriter(workers[w].name)

-----------------------------------------------------------------------------
(* C9 *)

\* the workers that are past inc_checked
PastChecked ==
    {w \in DOMAIN workers : workers[w].pc \in {"permit", "done"}}

\* the workers that are past inc_found
PastFound ==
    {w \in DOMAIN workers :
        workers[w].res = "true" /\ workers[w].pc \in {"check", "permit", "done"}}

\* C9: checked has grown by exactly one for every worker whose probe completed and
\* that went past inc_checked, whatever check_domain returned; a worker whose probe
\* returned an error or false never reaches store.add or inc_found, so found counts
\* exactly the workers with result true; and the dispatcher leaves its loop only
\* when run_service has returned or its future is dropped.
C9_CheckedOncePerProbe ==
    /\ prog.checked = Cardinality(PastChecked)
    /\ prog.found = Cardinality(PastFound)
    /\ \A w \in DOMAIN workers :
          /\ workers[w].res \in {"false", "err"} =>
                workers[w].pc \in {"check", "permit", "done"}
          /\ workers[w].pc \in {"add", "found"} => workers[w].res = "true"
    /\ Len(sendTasks) + Len(schan) =
          Cardinality({w \in DOMAIN workers :
              workers[w].res = "true" /\ workers[w].pc # "add"})
    /\ dpc = "exit" => pc \in {"stopped", "cancelled"}

\* one probe returned an error, one false and one true, all three are past
\* inc_checked, and the dispatcher took the later candidates after the error
C9_Witness ==
    /\ Len(workers) = 3
    /\ workers[1].res = "err"
    /\ workers[2].res = "false"
    /\ workers[3].res = "true"
    /\ PastChecked = {1, 2, 3}
    /\ prog.checked = 3
    /\ prog.found = 1

-----------------------------------------------------------------------------
(* C7 *)

\* C7: when the process has ended (trigger, then the grace period), every domain
\* for which found was incremented is a line of the file of its TLD.
C7_StoreFidelity ==
    mainpc = "exited" =>
        \A w \in PastFound :
            workers[w].name \in
                Range(ReadLines(files, extract_tld(workers[w].name).tld))

-----------------------------------------------------------------------------
(* C10 *)

\* C10: in a run that starts without a state file or with a complete one, the state
\* file is never partial: whenever its path exists, also after a kill at any point
\* and with the periodic save and the final save running at the same time, it holds
\* exactly one complete ResumeState.
C10_StateFileWhole ==
    statePath # 0 => inodes[statePath].bytes = "all"

-----------------------------------------------------------------------------
(* C11 *)

\* C11: once the shutdown signal is triggered, run_service stops generating, does
\* its final save and reaches its stopped state; so when the process has exited
\* after a trigger, run_service has returned.
C11_ShutdownStops ==
    shutdown = 1 /\ mainpc = "exited" /\ passes > 0 => pc = "stopped"

-----------------------------------------------------------------------------
(* C12 *)

\* C12: every candidate that was enqueued has completed its probe and incremented
\* checked when run_service is stopped and when the process exits.
C12_DrainBeforeStop ==
    pc = "stopped" \/ mainpc = "exited" => prog.checked = prog.enqueued

-----------------------------------------------------------------------------
(* C13 *)

\* a generator pass has ended and the next has not started
PassOver ==
    passes > 0 /\ pc \in {"sleep", "final", "save", "stopped"}

\* C13 as stated: with max_candidates = N > 0 the Progress counter enqueued is at
\* most N at the end of every pass, also of a second pass in loop mode.
C13_EnqueuedCap ==
    cfg.max_candidates > 0 /\ PassOver => prog.enqueued <= cfg.max_candidates

\* C13 amended: with max_candidates = N > 0 a pass enqueues at most N candidates:
\* the pass's sent counter never exceeds N, and the generator does not go on once
\* it is N.
C13_PassCap ==
    cfg.max_candidates > 0 =>
        /\ sent <= cfg.max_candidates
        /\ sent = cfg.max_candidates => pc \notin {"gen", "count"}

\* a first pass of a loop run stopped at its cap of two with a candidate left, and
\* the second pass has enqueued that candidate
C13_Witness ==
    /\ cfg.max_candidates = 2
    /\ passes = 2
    /\ sent = 1
    /\ prog.enqueued = 3
    /\ PassOver

-----------------------------------------------------------------------------
(* C14 *)

\* the label of odometer value idx (alphabet indices, 0-based)
LabelOf(gen, idx) ==
    [i \in 1..Len(idx) |-> AlphaChars(gen)[idx[i] + 1]]

\* the hyphen policy, position by position
PolicyOk(gen, label) ==
    \A i \in 1..Len(label) :
        label[i] = 45 =>
            /\ gen.allow_hyphen
            /\ ~(gen.forbid_leading_hyphen /\ i = 1)
            /\ ~(gen.forbid_trailing_hyphen /\ i = Len(label))
            /\ ~(gen.forbid_double_hyphen /\ i > 1 /\ label[i - 1] = 45)

\* the entries of gen.tlds that yield a domain
UsableTlds(gen) ==
    {k \in 1..Len(gen.tlds) :
        LET t == ToLower(Trim(gen.tlds[k])) IN t # <<>> /\ t[1] = 46}

\* (length, odometer value, tld entry) of every domain a fresh run is to emit
EmissionKeys(gen) ==
    UNION {{[ln |-> ln, idx |-> idx, k |-> k] :
               idx \in {x \in [1..ln -> 0..(Len(AlphaChars(gen)) - 1)] :
                           PolicyOk(gen, LabelOf(gen, x))},
               k \in UsableTlds(gen)} :
           ln \in gen.min_length..gen.max_length}

\* odometer order: the leftmost position that differs decides
IdxLess(a, b) ==
    \E i \in 1..Len(a) : a[i] < b[i] /\ \A j \in 1..(i - 1) : a[j] = b[j]

\* length, then odometer order, then the order of gen.tlds
KeyLess(x, y) ==
    \/ x.ln < y.ln
    \/ x.ln = y.ln /\ IdxLess(x.idx, y.idx)
    \/ x.ln = y.ln /\ x.idx = y.idx /\ x.k < y.k

\* the place of key x in the emission
Rank(gen, x) ==
    1 + Cardinality({y \in EmissionKeys(gen) : KeyLess(y, x)})

\* the domain of key x
DomainOf(gen, x) ==
    LabelOf(gen, x.idx) \o ToLower(Trim(gen.tlds[x.k]))

\* scenario S1: alphabet "ab", min = max = 2, tlds [".io"], no hyphen
S1Gen ==
    GenConfig(<<97, 98>>, <<2, 2>>, <<(<<46, 105, 111>>)>>, FALSE, FALSE, FALSE, FALSE)

\* C14: a fresh run emits the domains of its config in one fixed order: length
\* ascending, odometer order within a length (rightmost position fastest), the
\* order of gen.tlds within a label; what is emitted so far is a prefix of that
\* sequence and a finished run has emitted all of it.  S1 emits exactly aa.io,
\* ab.io, ba.io, bb.io.
C14_EmissionOrder ==
    resume_from = <<>> =>
        /\ Len(emitted) <= Cardinality(EmissionKeys(cfg.gen))
        /\ \A x \in EmissionKeys(cfg.gen) :
              Rank(cfg.gen, x) <= Len(emitted) =>
                  emitted[Rank(cfg.gen, x)] = DomainOf(cfg.gen, x)
        /\ pc = "done" => Len(emitted) = Cardinality(EmissionKeys(cfg.gen))
        /\ pc = "done" /\ cfg.gen = S1Gen =>
              emitted = << <<97, 97, 46, 105, 111>>, <<97, 98, 46, 105, 111>>,
                           <<98, 97, 46, 105, 111>>, <<98, 98, 46, 105, 111>> >>

\* a fresh run over two lengths and two TLDs has finished: b.b, b.a, a.b, a.a, then
\* the four labels of length 2 with both TLDs each
C14_Witness ==
    /\ pc = "done"
    /\ resume_from = <<>>
    /\ cfg.gen = GenConfig(<<98, 97>>, <<1, 2>>, <<(<<46, 98>>), (<<46, 97>>)>>,
                           FALSE, FALSE, FALSE, FALSE)
    /\ Len(emitted) = 12
    /\ emitted[1] = <<98, 46, 98>>
    /\ emitted[6] = <<98, 98, 46, 97>>
    /\ emitted[7] = <<98, 97, 46, 98>>

-----------------------------------------------------------------------------
(* C15 *)

\* scenario S2: alphabet "a-", min = max = 3, hyphens allowed, all three forbids
S2Gen ==
    GenConfig(<<97, 45>>, <<3, 3>>, <<(<<46, 120>>)>>, TRUE, TRUE, TRUE, TRUE)

\* domain d is a label of the config followed by one of its TLDs
WellFormed(gen, d) ==
    \E k \in UsableTlds(gen) :
        LET t  == ToLower(Trim(gen.tlds[k]))
            ln == Len(d) - Len(t)
        IN  /\ ln \in gen.min_length..gen.max_length
            /\ SubSeq(d, ln + 1, Len(d)) = t
            /\ \A j \in 1..ln : d[j] \in Range(AlphaChars(gen))
            /\ PolicyOk(gen, SubSeq(d, 1, ln))

\* every emitted label is made of alphabet characters only and obeys the hyphen
\* policy; a finished fresh run has emitted every label of the length range that
\* obeys it, with every TLD
PolicyExact ==
    /\ \A i \in DOMAIN emitted : WellFormed(cfg.gen, emitted[i])
    /\ pc = "done" /\ resume_from = <<>> =>
          \A x \in EmissionKeys(cfg.gen) : DomainOf(cfg.gen, x) \in Range(emitted)

\* C15 as stated: the emitted labels are exactly those that obey the policy, and
\* S2 emits exactly a-a.x.
C15_S2OneLabel ==
    /\ PolicyExact
    /\ pc = "done" /\ resume_from = <<>> /\ cfg.gen = S2Gen =>
          emitted = << <<97, 45, 97, 46, 120>> >>

\* C15 amended: the emitted labels are exactly those that obey the policy, and S2
\* emits exactly aaa.x and a-a.x, in that order.
C15_AlphabetClosure ==
    /\ PolicyExact
    /\ pc = "done" /\ resume_from = <<>> /\ cfg.gen = S2Gen =>
          emitted = << <<97, 97, 97, 46, 120>>, <<97, 45, 97, 46, 120>> >>

\* S2 has run to its end and emitted aaa.x and a-a.x
C15_Witness ==
    /\ pc = "done"
    /\ resume_from = <<>>
    /\ cfg.gen = S2Gen
    /\ Len(emitted) = 2
    /\ emitted[2] = <<97, 45, 97, 46, 120>>

-----------------------------------------------------------------------------
(* C16 *)

\* C16: a run with a non-empty resume_from = d never emits d itself.
C16_ResumeNotReemitted ==
    resume_from # <<>> => \A i \in DOMAIN emitted : emitted[i] # resume_from

-----------------------------------------------------------------------------
(* C17 *)

\* C17: for a domain whose resolution fails or yields no address check_domain
\* makes no HTTP request, and it returns false.
C17_NoHttpWithoutDns ==
    probe.target.dns # "addresses" =>
        /\ probe.log = <<>>
        /\ probe.pc = "done" /\ probe.target.buildable => probe.res = "false"

-----------------------------------------------------------------------------
(* C18 *)

\* the attempt and the scheme of the i-th request of a call: two requests an
\* attempt, the first of them https exactly when try_https_first
ScheduleAt(hc, i) ==
    [attempt |-> (i - 1) \div 2,
     scheme |-> IF (i % 2 = 1) = hc.try_https_first THEN "https" ELSE "http"]

\* C18: the requests of a call are attempt 0..=retry, each with the two schemes in
\* the configured order; only the last request can have an accepted response, and
\* then the call returns true; the call returns false after exactly 2*(retry+1)
\* requests, none of them accepted.
C18_AttemptOrder ==
    LET hc == cfg.http_check
    IN  /\ Len(probe.log) <= 2 * (hc.retry + 1)
        /\ \A i \in DOMAIN probe.log :
              /\ probe.log[i].attempt = ScheduleAt(hc, i).attempt
              /\ probe.log[i].scheme = ScheduleAt(hc, i).scheme
              /\ i < Len(probe.log) => ~Accepted(hc, probe.log[i].resp)
        /\ probe.res = "true" <=>
              probe.log # <<>> /\ Accepted(hc, probe.log[Len(probe.log)].resp)
        /\ probe.res = "false" =>
              /\ Len(probe.log) = 2 * (hc.retry + 1)
              /\ \A i \in DOMAIN probe.log : ~Accepted(hc, probe.log[i].resp)
        /\ probe.pc = "done" => probe.res \in {"true", "false", "err"}
        /\ probe.res = "err" => ~probe.target.buildable

\* with retry = 1 and http first: a transport error, a status just out of range,
\* then an accepted status on the second attempt's first scheme, and the call
\* returned true without its fourth request
C18_Witness ==
    /\ cfg.http_check.retry = 1
    /\ ~cfg.http_check.try_https_first
    /\ cfg.http_check.accept_status_max = 399
    /\ probe.pc = "done"
    /\ probe.res = "true"
    /\ Len(probe.log) = 3
    /\ probe.log[1] = [attempt |-> 0, scheme |-> "http", resp |-> TransportError]
    /\ probe.log[2] = [attempt |-> 0, scheme |-> "https",
                       resp |-> [ok |-> TRUE, status |-> 400]]
    /\ probe.log[3] = [attempt |-> 1, scheme |-> "http",
                       resp |-> [ok |-> TRUE, status |-> 399]]

-----------------------------------------------------------------------------
(* C19 *)

\* C19: a periodic save that failed is not recorded as the previously saved value:
\* after a failed call prev is not the value the call was given, so the next tick
\* saves again although last_domain has not changed.
C19_FailedSaveRetried ==
    saves["periodic"].pc = "idle" /\ saves["periodic"].res = "err" =>
        prev # saves["periodic"].last

-----------------------------------------------------------------------------
(* C20 *)

\* the state file is there and parses, and resume is enabled
Resumable ==
    cfg.resume /\ statePath # 0 /\ inodes[statePath].bytes = "all"

\* the configured total_planned
ConfiguredTotal ==
    IF cfg.max_candidates > 0 THEN cfg.max_candidates ELSE 0

\* the step that ends the startup: what the cell and the counters are after it
LoadedAsPersisted ==
    LET st == inodes[statePath]
    IN  IF Resumable
        THEN /\ last_domain' = Trim(st.last_domain)
             /\ IF st.enqueued # 0 \/ st.checked # 0 \/ st.found # 0
                   \/ st.total_planned # 0
                THEN prog' = [enqueued |-> st.enqueued, checked |-> st.checked,
                              found |-> st.found,
                              total_planned |-> IF st.total_planned > 0
                                                THEN st.total_planned
                                                ELSE ConfiguredTotal]
                ELSE prog' = [enqueued |-> 0, checked |-> 0, found |-> 0,
                              total_planned |-> ConfiguredTotal]
        ELSE /\ last_domain' = <<>>
             /\ prog' = [enqueued |-> 0, checked |-> 0, found |-> 0,
                         total_planned |-> ConfiguredTotal]

\* a step after the startup never sets the counters: each grows by one at most
\* and total_planned stays
CountersOnlyGrow ==
    /\ prog'.enqueued \in {prog.enqueued, prog.enqueued + 1}
    /\ prog'.checked \in {prog.checked, prog.checked + 1}
    /\ prog'.found \in {prog.found, prog.found + 1}
    /\ prog'.total_planned = prog.total_planned

\* C20: the startup of run_service is one load, before any generator pass: with
\* resume and a state file that parses it sets last_domain to the trimmed persisted
\* value and, when a persisted counter is not 0, the counters to the persisted
\* ones, total_planned from the state when > 0 and else as configured; otherwise
\* last_domain stays empty and the counters stay as constructed.  After it the
\* counters are never set again.
C20_ResumeLoad ==
    [][/\ pc = "load" => passes = 0 /\ emitted = <<>> /\ last_domain = <<>>
       /\ pc = "load" /\ pc' # "load" => LoadedAsPersisted
       /\ pc # "load" => pc' # "load" /\ CountersOnlyGrow]_vars

\* the startup found a.io with counters 2, 1, 1 and total_planned 0 in the state
\* file, the cap is 1, and no pass has started
C20_Witness ==
    /\ cfg.resume
    /\ cfg.max_candidates = 1
    /\ pc = "select"
    /\ passes = 0
    /\ last_domain = <<97, 46, 105, 111>>
    /\ prog = [enqueued |-> 2, checked |-> 1, found |-> 1, total_planned |-> 1]

-----------------------------------------------------------------------------
(* C21 *)

\* the domains of s that extract_tld accepts
WellFormedDomains(s) ==
    SelectSeq(s, LAMBDA d : extract_tld(d).some)

\* the domains of s whose TLD is tld
OfTld(s, tld) ==
    SelectSeq(s, LAMBDA d : extract_tld(d) = [some |-> TRUE, tld |-> tld])

\* how many times d occurs in s
Count(s, d) ==
    Cardinality({i \in DOMAIN s : s[i] = d})

\* a and b hold the same elements the same number of times
SameMultiset(a, b) ==
    /\ Len(a) = Len(b)
    /\ \A d \in Range(a) \cup Range(b) : Count(a, d) = Count(b, d)

\* C21: after reset, adds of well-formed domains and a completed flush, list_all
\* returns exactly the multiset of the added domains, and the domains of one TLD
\* are in its file in the order of the add calls.
C21_RoundTrip ==
    caller.reset /\ caller.lpc = "listed" /\ caller.complete =>
        /\ SameMultiset(caller.listed, WellFormedDomains(caller.adds))
        /\ \A t \in TxtFiles(files) :
              OfTld(caller.listed, t) = OfTld(caller.adds, t)

-----------------------------------------------------------------------------
(* C22 *)

\* the TLD of a line: what follows its last '.'
LineTld(line) ==
    SubSeq(line, LastDot(line, Len(line)) + 1, Len(line))

\* domain has no '.', a leading '.' or a trailing '.'
Malformed(domain) ==
    \/ \A i \in DOMAIN domain : domain[i] # 46
    \/ domain[1] = 46
    \/ domain[Len(domain)] = 46

\* every line of every <tld>.txt has a '.' that is neither its first nor its last
\* character, and what follows its last '.' is tld; so has every buffered domain
\* for the key it is buffered under
LinesMatchFile ==
    /\ \A t \in TxtFiles(files) :
          \A line \in Range(ReadLines(files, t)) :
              ~Malformed(line) /\ LineTld(line) = t
    /\ \A i \in DOMAIN buffer :
          ~Malformed(buffer[i].domain) /\ LineTld(buffer[i].domain) = buffer[i].tld

\* a step in which a malformed domain is added or reaches the writer leaves the
\* files and the buffer as they are
MalformedIsNoOp ==
    /\ (caller'.calls = caller.calls + 1 /\ Malformed(caller'.adds[Len(caller'.adds)]))
          => files' = files /\ buffer' = buffer
    /\ (schan # <<>> /\ schan' = Tail(schan) /\ Malformed(Head(schan)))
          => files' = files /\ buffer' = buffer

\* C22: after any sequence of adds, every line of <tld>.txt is a domain whose part
\* after its last '.' is tld; the add of a malformed domain (no '.', leading '.',
\* trailing '.') changes no file and leaves the buffered domains as they are.
C22_LinesMatchTld ==
    []LinesMatchFile /\ [][MalformedIsNoOp]_vars

-----------------------------------------------------------------------------
(* C23 *)

\* the three counters
Counters(p) ==
    <<p.enqueued, p.checked, p.found>>

\* the step is one inc_enqueued, inc_checked or inc_found
IsIncrement ==
    \/ prog' = inc_enqueued(prog)
    \/ prog' = inc_checked(prog)
    \/ prog' = inc_found(prog)

\* C23: the counters are never negative, no step lowers one, and a step that
\* writes them other than by an increment is made at the startup, before any
\* pass, any worker and any increment.
C23_CountersMonotone ==
    /\ [](\A i \in 1 .. 3 : Counters(prog)[i] >= 0)
    /\ [][/\ \A i \in 1 .. 3 : Counters(prog')[i] >= Counters(prog)[i]
          /\ prog' # prog /\ ~IsIncrement =>
                /\ pc = "load"
                /\ passes = 0
                /\ workers = <<>>
                /\ Counters(prog) = <<0, 0, 0>>]_vars

\* the startup restored the counters 2, 1, 1, and in the second pass of a loop run
\* they are 3, 2, 2: a.io was enqueued, found and checked after the restore
C23_Witness ==
    /\ cfg.loop_
    /\ passes = 2
    /\ Counters(prog) = <<3, 2, 2>>

-----------------------------------------------------------------------------
(* C24 *)

\* the driver is in Generating: the generator future is being polled
Generating ==
    pc \in {"gen", "count"}

\* the step ends a pass: the walk is exhausted, or the emit closure returned false
\* at the cap
PassCompletes ==
    \/ pc = "gen" /\ gpos > Len(Walk(cfg.gen))
    \/ pc = "count" /\ cfg.max_candidates > 0 /\ sent' = cfg.max_candidates

\* one step of the driver's state machine
DriverStep ==
    /\ passes' # passes =>
          /\ passes' = passes + 1
          /\ pc = "select" /\ pc' = "gen"
          /\ resume_from' = last_domain
          /\ passes > 0 => cfg.loop_
    /\ pc = "select" /\ pc' # pc =>
          \/ pc' = "gen" /\ passes' = passes + 1
          \/ pc' = "final" /\ shutdown # 0
    /\ Generating /\ ~Generating' =>
          \/ PassCompletes /\ cfg.loop_ /\ pc' = "sleep"
          \/ PassCompletes /\ ~cfg.loop_ /\ pc' = "final"
          \/ ~PassCompletes /\ pc = "gen" /\ shutdown # 0 /\ pc' = "final"
    /\ Generating /\ Generating' => passes' = passes
    /\ pc = "sleep" /\ pc' # pc => pc' = "select"
    /\ pc \in {"final", "stopped"} => pc' \in {"final", "stopped"} /\ passes' = passes

\* C24: the driver follows the state machine: a pass starts at the top of the
\* loop with resume_from read from last_domain; a pass that ends (exhaustion or
\* cap) leads out of the loop when run.loop is false and to the pause and the top
\* of the loop when it is true; the signal, seen at the top of the loop or while
\* the generator is suspended, leads out of the loop, after which no pass starts;
\* without run.loop at most one pass is started.
C24_DriverStateMachine ==
    /\ [](~cfg.loop_ => passes <= 1)
    /\ [][DriverStep]_vars

\* a loop run with a cap of 2: the second pass resumed from b.io, and the signal
\* ended it at a yield before the walk was exhausted
C24_Witness ==
    /\ cfg.loop_
    /\ cfg.max_candidates = 2
    /\ passes = 2
    /\ resume_from = <<98, 46, 105, 111>>
    /\ shutdown = 1
    /\ pc = "final"
    /\ gpos <= Len(Walk(cfg.gen))

-----------------------------------------------------------------------------
(* C25 *)

\* s is the end of t from some position on
IsSuffix(s, t) ==
    \E k \in 0 .. Len(t) : s = SubSeq(t, k + 1, Len(t))

\* C25: what generate_candidates emits is a contiguous part of the fresh-run
\* sequence: from the first emitted domain on the started flag is set and every
\* domain of the walk up to the current position has been emitted, and a finished
\* run has emitted a suffix of the fresh-run sequence.
C25_ContiguousSuffix ==
    LET fresh == generate_candidates(cfg.gen, <<>>)
    IN  /\ emitted # <<>> =>
              /\ started
              /\ emitted = SubSeq(fresh, gpos - Len(emitted), gpos - 1)
        /\ pc = "done" => IsSuffix(emitted, fresh)

\* a finished resumed run that emitted, after its first domain, one that sorts
\* before resume_from and resume_from itself
C25_Witness ==
    /\ pc = "done"
    /\ \E i \in 2 .. Len(emitted) :
          ToLower(emitted[i]) = ToLower(resume_from)
    /\ \E i \in 2 .. Len(emitted) :
          StrLess(ToLower(emitted[i]), ToLower(resume_from))

-----------------------------------------------------------------------------
(* C26 *)

\* the (label, tld entry) pairs that make domain d
PairsOf(gen, d) ==
    {x \in EmissionKeys(gen) : DomainOf(gen, x) = d}

\* a finished fresh run in which the sink took every domain has emitted every
\* pair of a policy-valid label and an accepted tld entry once, and nothing else:
\* a domain is emitted as many times as there are pairs that make it
EachPairOnce ==
    pc = "done" /\ resume_from = <<>> =>
        /\ Len(emitted) = Cardinality(EmissionKeys(cfg.gen))
        /\ \A x \in EmissionKeys(cfg.gen) :
              Count(emitted, DomainOf(cfg.gen, x)) =
                  Cardinality(PairsOf(cfg.gen, DomainOf(cfg.gen, x)))

\* a step emits one domain at most, and none once the generator has returned,
\* which it does in the step in which the sink returns false
ReturnsWhenRefused ==
    /\ emitted' # emitted => pc = "gen" /\ Len(emitted') = Len(emitted) + 1
    /\ pc \in {"done", "refused"} => pc' = pc /\ emitted' = emitted

\* C26: generate_candidates terminates; a fresh run whose sink always returns
\* true emits each (policy-valid label, accepted tld entry) pair exactly once,
\* skipping the tld entries that are empty or do not start with '.' after trim
\* and lowercase; when the sink returns false it returns and emits nothing more.
C26_PairsOnceAndTermination ==
    /\ []EachPairOnce
    /\ [][ReturnsWhenRefused]_vars
    /\ <>(pc \in {"done", "refused"})

\* a finished fresh run over tlds ["io", "", " .IO "] and the labels a and b has
\* emitted a.io and b.io
C26_Witness ==
    /\ pc = "done"
    /\ resume_from = <<>>
    /\ cfg.gen.tlds = <<(<<105, 111>>), (<<>>), (<<32, 46, 73, 79, 32>>)>>
    /\ emitted = <<(<<97, 46, 105, 111>>), (<<98, 46, 105, 111>>)>>

-----------------------------------------------------------------------------
(* C27 *)

\* C27: the two admission controls never deadlock: the candidate the dispatcher
\* took from the queue gets its concurrency permit and is spawned, and every
\* spawned worker gets its rate token, completes its probe, increments checked and
\* releases its concurrency permit.
C27_NoAdmissionDeadlock ==
    /\ [](DOMAIN workers \subseteq WorkerIds)
    /\ (dpc = "acquire") ~> (dpc = "recv")
    /\ \A w \in WorkerIds :
          (w \in DOMAIN workers) ~> (w \in DOMAIN workers /\ workers[w].pc = "done")

\* concurrency 2 and one token a second: both permits are held by workers that
\* wait for a token, none is left, and the dispatcher waits for a permit with the
\* third candidate
C27_Witness ==
    /\ cfg.concurrency = 2
    /\ cfg.rate_per_second = 1
    /\ Len(workers) = 2
    /\ \A w \in DOMAIN workers : workers[w].pc = "rps"
    /\ limiter = 0
    /\ conc = 0
    /\ dpc = "acquire"

-----------------------------------------------------------------------------
(* C28 *)

\* the candidates the current pass has placed in the queue: those handed to the
\* emit closure less those try_send refused
Placed ==
    Len(emitted) - Len(dropped)

\* sent counts the candidates of the pass that are in the queue or went through
\* it, the one just placed (try_send returned Ok, the closure is at sent += 1)
\* aside; with a cap of N > 0 a pass places N at most
SentIsPlaced ==
    /\ pc = "count" => sent + 1 = Placed
    /\ pc # "count" /\ passes > 0 => sent = Placed
    /\ cfg.max_candidates > 0 => Placed <= cfg.max_candidates

\* sent and enqueued grow together, by one, in the step after try_send returned
\* Ok; sent is only set otherwise at the start of a pass, to 0
GrowTogether ==
    /\ passes' = passes => prog'.enqueued - prog.enqueued = sent' - sent
    /\ passes' # passes => sent' = 0 /\ prog'.enqueued = prog.enqueued
    /\ prog'.enqueued # prog.enqueued =>
          pc = "count" /\ prog'.enqueued = prog.enqueued + 1

\* C28: sent and enqueued are incremented together and only for candidates placed
\* in the queue: at the end of a pass sent is the number of candidates the pass
\* placed in the queue, enqueued has grown by sent since the pass started, and
\* with max_candidates = N > 0 a pass places at most N candidates.
C28_SentCountsPlaced ==
    /\ []SentIsPlaced
    /\ [][GrowTogether]_vars

\* an uncapped pass is over: the queue was full for one of its three candidates,
\* sent and enqueued are 2
C28_Witness ==
    /\ PassOver
    /\ passes = 1
    /\ cfg.max_candidates = 0
    /\ Len(emitted) = 3
    /\ Len(dropped) = 1
    /\ sent = 2
    /\ prog.enqueued = 2

-----------------------------------------------------------------------------
(* C29 *)

\* the names of the workers ws, in spawn order
RECURSIVE WorkerNames(_)
WorkerNames(ws) ==
    IF ws = <<>> THEN <<>>
    ELSE <<Head(ws).name>> \o WorkerNames(Tail(ws))

\* every candidate try_send has placed in the queue since the process started,
\* in the order of placement: those the dispatcher passed to a worker, the one it
\* holds, and those in the channel
PlacedInProcess ==
    WorkerNames(workers) \o (IF dpc = "acquire" THEN <<dname>> ELSE <<>>) \o queue

\* C29: in loop mode within one process no candidate is placed in the queue
\* twice: a pass after the first enqueues only candidates that no earlier pass of
\* the process enqueued.
C29_NoCandidateTwice ==
    cfg.loop_ =>
        \A i, j \in 1..Len(PlacedInProcess) :
            PlacedInProcess[i] = PlacedInProcess[j] => i = j

====
